---------------------------- MODULE Spec2Model ----------------------------
(***************************************************************************)
(* A model of libcno: the HPACK codec (src/examples/simple_common.h,       *)
(* lines 189-687) and the HTTP/1.x + HTTP/2 connection engine              *)
(* (src/unnamed/part_000).  Every C function is an operator over records   *)
(* that hold the C structures; an API call is one action.                  *)
(*                                                                         *)
(* Strings and buffers are sequences of byte values (0..255).              *)
(***************************************************************************)
EXTENDS Integers, Sequences, FiniteSets, TLC

(* the call graph of the C functions, defined after the last of them *)
RECURSIVE Call(_, _)

(***************************************************************************)
(* Generic helpers.                                                        *)
(***************************************************************************)
Pow2(n) ==
   2 ^ n

Min(a, b) ==
   IF a < b THEN a ELSE b

SetMin(S) ==
   CHOOSE x \in S : \A y \in S : x <= y

Drop(s, n) ==
   IF n >= Len(s) THEN <<>> ELSE SubSeq(s, n + 1, Len(s))

Take(s, n) ==
   IF n >= Len(s) THEN s ELSE SubSeq(s, 1, n)

Range(s) ==
   {s[i] : i \in 1..Len(s)}

RECURSIVE Flatten(_)
Flatten(ss) ==
   IF ss = <<>> THEN <<>> ELSE Head(ss) \o Flatten(Tail(ss))

(***************************************************************************)
(* Error kinds (spec section 7) and the value every API call starts from.  *)
(***************************************************************************)
CNO_OK == "OK"

(***************************************************************************)
(* HPACK.  A codec state is the record                                     *)
(*   [table, size, limit, limit_upper, limit_update_min, limit_update_end] *)
(* where table is the dynamic table, most recent entry first.              *)
(***************************************************************************)
CNO_HPACK_STATIC_TABLE_SIZE == 61

CNO_HPACK_STATIC_TABLE ==
   <<
      (*  1 :authority:  *)
      [name |-> <<58, 97, 117, 116, 104, 111, 114, 105, 116, 121>>, value |-> <<>>],
      (*  2 :method: GET *)
      [name |-> <<58, 109, 101, 116, 104, 111, 100>>, value |-> <<71, 69, 84>>],
      (*  3 :method: POST *)
      [name |-> <<58, 109, 101, 116, 104, 111, 100>>, value |-> <<80, 79, 83, 84>>],
      (*  4 :path: / *)
      [name |-> <<58, 112, 97, 116, 104>>, value |-> <<47>>],
      (*  5 :path: /index.html *)
      [name |-> <<58, 112, 97, 116, 104>>, value |-> <<47, 105, 110, 100, 101, 120, 46, 104, 116, 109, 108>>],
      (*  6 :scheme: http *)
      [name |-> <<58, 115, 99, 104, 101, 109, 101>>, value |-> <<104, 116, 116, 112>>],
      (*  7 :scheme: https *)
      [name |-> <<58, 115, 99, 104, 101, 109, 101>>, value |-> <<104, 116, 116, 112, 115>>],
      (*  8 :status: 200 *)
      [name |-> <<58, 115, 116, 97, 116, 117, 115>>, value |-> <<50, 48, 48>>],
      (*  9 :status: 204 *)
      [name |-> <<58, 115, 116, 97, 116, 117, 115>>, value |-> <<50, 48, 52>>],
      (* 10 :status: 206 *)
      [name |-> <<58, 115, 116, 97, 116, 117, 115>>, value |-> <<50, 48, 54>>],
      (* 11 :status: 304 *)
      [name |-> <<58, 115, 116, 97, 116, 117, 115>>, value |-> <<51, 48, 52>>],
      (* 12 :status: 400 *)
      [name |-> <<58, 115, 116, 97, 116, 117, 115>>, value |-> <<52, 48, 48>>],
      (* 13 :status: 404 *)
      [name |-> <<58, 115, 116, 97, 116, 117, 115>>, value |-> <<52, 48, 52>>],
      (* 14 :status: 500 *)
      [name |-> <<58, 115, 116, 97, 116, 117, 115>>, value |-> <<53, 48, 48>>],
      (* 15 accept-charset:  *)
      [name |-> <<97, 99, 99, 101, 112, 116, 45, 99, 104, 97, 114, 115, 101, 116>>, value |-> <<>>],
      (* 16 accept-encoding: gzip, deflate *)
      [name |-> <<97, 99, 99, 101, 112, 116, 45, 101, 110, 99, 111, 100, 105, 110, 103>>, value |-> <<103, 122, 105, 112, 44, 32, 100, 101, 102, 108, 97, 116, 101>>],
      (* 17 accept-language:  *)
      [name |-> <<97, 99, 99, 101, 112, 116, 45, 108, 97, 110, 103, 117, 97, 103, 101>>, value |-> <<>>],
      (* 18 accept-ranges:  *)
      [name |-> <<97, 99, 99, 101, 112, 116, 45, 114, 97, 110, 103, 101, 115>>, value |-> <<>>],
      (* 19 accept:  *)
      [name |-> <<97, 99, 99, 101, 112, 116>>, value |-> <<>>],
      (* 20 access-control-allow-origin:  *)
      [name |-> <<97, 99, 99, 101, 115, 115, 45, 99, 111, 110, 116, 114, 111, 108, 45, 97, 108, 108, 111, 119, 45, 111, 114, 105, 103, 105, 110>>, value |-> <<>>],
      (* 21 age:  *)
      [name |-> <<97, 103, 101>>, value |-> <<>>],
      (* 22 allow:  *)
      [name |-> <<97, 108, 108, 111, 119>>, value |-> <<>>],
      (* 23 authorization:  *)
      [name |-> <<97, 117, 116, 104, 111, 114, 105, 122, 97, 116, 105, 111, 110>>, value |-> <<>>],
      (* 24 cache-control:  *)
      [name |-> <<99, 97, 99, 104, 101, 45, 99, 111, 110, 116, 114, 111, 108>>, value |-> <<>>],
      (* 25 content-disposition:  *)
      [name |-> <<99, 111, 110, 116, 101, 110, 116, 45, 100, 105, 115, 112, 111, 115, 105, 116, 105, 111, 110>>, value |-> <<>>],
      (* 26 content-encoding:  *)
      [name |-> <<99, 111, 110, 116, 101, 110, 116, 45, 101, 110, 99, 111, 100, 105, 110, 103>>, value |-> <<>>],
      (* 27 content-language:  *)
      [name |-> <<99, 111, 110, 116, 101, 110, 116, 45, 108, 97, 110, 103, 117, 97, 103, 101>>, value |-> <<>>],
      (* 28 content-length:  *)
      [name |-> <<99, 111, 110, 116, 101, 110, 116, 45, 108, 101, 110, 103, 116, 104>>, value |-> <<>>],
      (* 29 content-location:  *)
      [name |-> <<99, 111, 110, 116, 101, 110, 116, 45, 108, 111, 99, 97, 116, 105, 111, 110>>, value |-> <<>>],
      (* 30 content-range:  *)
      [name |-> <<99, 111, 110, 116, 101, 110, 116, 45, 114, 97, 110, 103, 101>>, value |-> <<>>],
      (* 31 content-type:  *)
      [name |-> <<99, 111, 110, 116, 101, 110, 116, 45, 116, 121, 112, 101>>, value |-> <<>>],
      (* 32 cookie:  *)
      [name |-> <<99, 111, 111, 107, 105, 101>>, value |-> <<>>],
      (* 33 date:  *)
      [name |-> <<100, 97, 116, 101>>, value |-> <<>>],
      (* 34 etag:  *)
      [name |-> <<101, 116, 97, 103>>, value |-> <<>>],
      (* 35 expect:  *)
      [name |-> <<101, 120, 112, 101, 99, 116>>, value |-> <<>>],
      (* 36 expires:  *)
      [name |-> <<101, 120, 112, 105, 114, 101, 115>>, value |-> <<>>],
      (* 37 from:  *)
      [name |-> <<102, 114, 111, 109>>, value |-> <<>>],
      (* 38 host:  *)
      [name |-> <<104, 111, 115, 116>>, value |-> <<>>],
      (* 39 if-match:  *)
      [name |-> <<105, 102, 45, 109, 97, 116, 99, 104>>, value |-> <<>>],
      (* 40 if-modified-since:  *)
      [name |-> <<105, 102, 45, 109, 111, 100, 105, 102, 105, 101, 100, 45, 115, 105, 110, 99, 101>>, value |-> <<>>],
      (* 41 if-none-match:  *)
      [name |-> <<105, 102, 45, 110, 111, 110, 101, 45, 109, 97, 116, 99, 104>>, value |-> <<>>],
      (* 42 if-range:  *)
      [name |-> <<105, 102, 45, 114, 97, 110, 103, 101>>, value |-> <<>>],
      (* 43 if-unmodified-since:  *)
      [name |-> <<105, 102, 45, 117, 110, 109, 111, 100, 105, 102, 105, 101, 100, 45, 115, 105, 110, 99, 101>>, value |-> <<>>],
      (* 44 last-modified:  *)
      [name |-> <<108, 97, 115, 116, 45, 109, 111, 100, 105, 102, 105, 101, 100>>, value |-> <<>>],
      (* 45 link:  *)
      [name |-> <<108, 105, 110, 107>>, value |-> <<>>],
      (* 46 location:  *)
      [name |-> <<108, 111, 99, 97, 116, 105, 111, 110>>, value |-> <<>>],
      (* 47 max-forwards:  *)
      [name |-> <<109, 97, 120, 45, 102, 111, 114, 119, 97, 114, 100, 115>>, value |-> <<>>],
      (* 48 proxy-authenticate:  *)
      [name |-> <<112, 114, 111, 120, 121, 45, 97, 117, 116, 104, 101, 110, 116, 105, 99, 97, 116, 101>>, value |-> <<>>],
      (* 49 proxy-authorization:  *)
      [name |-> <<112, 114, 111, 120, 121, 45, 97, 117, 116, 104, 111, 114, 105, 122, 97, 116, 105, 111, 110>>, value |-> <<>>],
      (* 50 range:  *)
      [name |-> <<114, 97, 110, 103, 101>>, value |-> <<>>],
      (* 51 referer:  *)
      [name |-> <<114, 101, 102, 101, 114, 101, 114>>, value |-> <<>>],
      (* 52 refresh:  *)
      [name |-> <<114, 101, 102, 114, 101, 115, 104>>, value |-> <<>>],
      (* 53 retry-after:  *)
      [name |-> <<114, 101, 116, 114, 121, 45, 97, 102, 116, 101, 114>>, value |-> <<>>],
      (* 54 server:  *)
      [name |-> <<115, 101, 114, 118, 101, 114>>, value |-> <<>>],
      (* 55 set-cookie:  *)
      [name |-> <<115, 101, 116, 45, 99, 111, 111, 107, 105, 101>>, value |-> <<>>],
      (* 56 strict-transport-security:  *)
      [name |-> <<115, 116, 114, 105, 99, 116, 45, 116, 114, 97, 110, 115, 112, 111, 114, 116, 45, 115, 101, 99, 117, 114, 105, 116, 121>>, value |-> <<>>],
      (* 57 transfer-encoding:  *)
      [name |-> <<116, 114, 97, 110, 115, 102, 101, 114, 45, 101, 110, 99, 111, 100, 105, 110, 103>>, value |-> <<>>],
      (* 58 user-agent:  *)
      [name |-> <<117, 115, 101, 114, 45, 97, 103, 101, 110, 116>>, value |-> <<>>],
      (* 59 vary:  *)
      [name |-> <<118, 97, 114, 121>>, value |-> <<>>],
      (* 60 via:  *)
      [name |-> <<118, 105, 97>>, value |-> <<>>],
      (* 61 www-authenticate:  *)
      [name |-> <<119, 119, 119, 45, 97, 117, 116, 104, 101, 110, 116, 105, 99, 97, 116, 101>>, value |-> <<>>]
   >>

Header(n, v) ==
   [name |-> n, value |-> v]

EntrySize(h) ==
   32 + Len(h.name) + Len(h.value)

cno_hpack_init(limit) ==
   [table |-> <<>>, size |-> 0, limit |-> limit, limit_upper |-> limit,
    limit_update_min |-> limit, limit_update_end |-> limit]

(* while (size > limit) drop the last entry.  An empty table has size 0,   *)
(* so the loop never runs on an empty list.                                *)
RECURSIVE cno_hpack_evict(_)
cno_hpack_evict(state) ==
   IF state.size > state.limit /\ Len(state.table) > 0
   THEN LET evicting == state.table[Len(state.table)]
        IN  cno_hpack_evict([state EXCEPT
               !.size  = @ - EntrySize(evicting),
               !.table = SubSeq(@, 1, Len(@) - 1)])
   ELSE state

cno_hpack_clear(state) ==
   LET lim == state.limit
       s1  == cno_hpack_evict([state EXCEPT !.limit = 0])
   IN  [s1 EXCEPT !.limit = lim]

cno_hpack_index(state, source) ==
   cno_hpack_evict([state EXCEPT
      !.size  = @ + EntrySize(source),
      !.table = <<Header(source.name, source.value)>> \o @])

(* returns [rc, header] *)
cno_hpack_find_index(state, index) ==
   IF index = 0
   THEN [rc |-> "TRANSPORT", header |-> Header(<<>>, <<>>)]
   ELSE IF index <= CNO_HPACK_STATIC_TABLE_SIZE
   THEN [rc |-> CNO_OK, header |-> CNO_HPACK_STATIC_TABLE[index]]
   ELSE IF index - CNO_HPACK_STATIC_TABLE_SIZE > Len(state.table)
   THEN [rc |-> "TRANSPORT", header |-> Header(<<>>, <<>>)]
   ELSE [rc |-> CNO_OK, header |-> state.table[index - CNO_HPACK_STATIC_TABLE_SIZE]]

(* returns [match, index]: match is 0 (none), 1 (name only), 2 (full).     *)
CompareIndexIn(all, src) ==
   LET full == {i \in 1..Len(all) : all[i].name = src.name /\ all[i].value = src.value}
       part == {i \in 1..Len(all) : all[i].name = src.name}
   IN  IF full # {}
       THEN [match |-> 2, index |-> SetMin(full)]
       ELSE IF part # {}
       THEN [match |-> 1, index |-> SetMin(part)]
       ELSE [match |-> 0, index |-> 0]

cno_hpack_compare_index(state, src) ==
   CompareIndexIn(CNO_HPACK_STATIC_TABLE \o state.table, src)

(***************************************************************************)
(* Huffman code of the characters the model uses (cno-hpack-data.h is not  *)
(* part of the sources; the codes are those of RFC 7541 appendix B).  A    *)
(* code is a sequence of bits, most significant first.                     *)
(***************************************************************************)
HuffmanChars == {48, 49, 50, 97, 98, 99}

CNO_HUFFMAN_TABLE(ch) ==
   CASE ch = 48 -> <<0, 0, 0, 0, 0>>        (* '0' *)
     [] ch = 49 -> <<0, 0, 0, 0, 1>>        (* '1' *)
     [] ch = 50 -> <<0, 0, 0, 1, 0>>        (* '2' *)
     [] ch = 97 -> <<0, 0, 0, 1, 1>>        (* 'a' *)
     [] ch = 99 -> <<0, 0, 1, 0, 0>>        (* 'c' *)
     [] ch = 98 -> <<1, 0, 0, 0, 1, 1>>     (* 'b' *)

RECURSIVE BitsToBytes(_)
BitsToBytes(bits) ==
   IF bits = <<>> THEN <<>>
   ELSE <<128 * bits[1] + 64 * bits[2] + 32 * bits[3] + 16 * bits[4]
          + 8 * bits[5] + 4 * bits[6] + 2 * bits[7] + bits[8]>>
        \o BitsToBytes(Drop(bits, 8))

RECURSIVE BytesToBits(_)
BytesToBits(bytes) ==
   IF bytes = <<>> THEN <<>>
   ELSE LET b == Head(bytes)
        IN  <<b \div 128, (b \div 64) % 2, (b \div 32) % 2, (b \div 16) % 2,
              (b \div 8) % 2, (b \div 4) % 2, (b \div 2) % 2, b % 2>>
            \o BytesToBits(Tail(bytes))

(* the bits of a string, padded with ones to a byte boundary *)
HuffmanEncode(str) ==
   LET bits == Flatten([i \in 1..Len(str) |-> CNO_HUFFMAN_TABLE(str[i])])
       pad  == (8 - (Len(bits) % 8)) % 8
   IN  BitsToBytes(bits \o [i \in 1..pad |-> 1])

(* walk of CNO_HUFFMAN_TREES: returns [rc, str].  The walk ends well only  *)
(* in a state flagged EOS: fewer than 8 bits left, all of them ones.       *)
RECURSIVE HuffmanDecodeBits(_, _)
HuffmanDecodeBits(bits, acc) ==
   LET hit == {ch \in HuffmanChars :
                  /\ Len(CNO_HUFFMAN_TABLE(ch)) <= Len(bits)
                  /\ SubSeq(bits, 1, Len(CNO_HUFFMAN_TABLE(ch))) = CNO_HUFFMAN_TABLE(ch)}
   IN  IF hit # {}
       THEN LET ch == CHOOSE c \in hit : TRUE
            IN  HuffmanDecodeBits(Drop(bits, Len(CNO_HUFFMAN_TABLE(ch))), Append(acc, ch))
       ELSE IF Len(bits) < 8 /\ \A i \in 1..Len(bits) : bits[i] = 1
       THEN [rc |-> CNO_OK, str |-> acc]
       ELSE [rc |-> "TRANSPORT", str |-> <<>>]

(***************************************************************************)
(* Integers and strings.  A decoder returns [rc, value, rest] where rest   *)
(* is the source after cno_io_vector_shift.                                *)
(***************************************************************************)
SIZEOF_SIZE_T == 8

(* the do-while of cno_hpack_decode_uint: src is at the first continuation *)
(* byte, size counts the bytes already read.                               *)
RECURSIVE DecodeUintLoop(_, _, _)
DecodeUintLoop(src, size, result) ==
   IF src = <<>>
   THEN [rc |-> "TRANSPORT", value |-> 0, used |-> size]
   ELSE LET r == result + (Head(src) % 128) * Pow2(7 * size)
        IN  IF size + 1 >= SIZEOF_SIZE_T
            THEN [rc |-> "TRANSPORT", value |-> 0, used |-> size + 1]
            ELSE IF Head(src) >= 128
            THEN DecodeUintLoop(Tail(src), size + 1, r)
            ELSE [rc |-> CNO_OK, value |-> r, used |-> size + 1]

cno_hpack_decode_uint(source, prefix) ==
   IF source = <<>>
   THEN [rc |-> "TRANSPORT", value |-> 0, rest |-> source]
   ELSE LET mask == Pow2(prefix) - 1
            head == Head(source) % Pow2(prefix)
        IN  IF head # mask
            THEN [rc |-> CNO_OK, value |-> head, rest |-> Tail(source)]
            ELSE LET l == DecodeUintLoop(Tail(source), 0, 0)
                 IN  IF l.rc # CNO_OK
                     THEN [rc |-> l.rc, value |-> 0, rest |-> source]
                     ELSE [rc |-> CNO_OK, value |-> l.value + mask,
                           rest |-> Drop(source, l.used + 1)]

(* returns [rc, str, rest] *)
cno_hpack_decode_string(source) ==
   IF source = <<>>
   THEN [rc |-> "TRANSPORT", str |-> <<>>, rest |-> source]
   ELSE LET huffman == Head(source) \div 128
            n       == Call("cno_hpack_decode_uint", <<source, 7>>)
        IN  IF n.rc # CNO_OK
            THEN [rc |-> n.rc, str |-> <<>>, rest |-> source]
            ELSE IF n.value > Len(n.rest)
            THEN [rc |-> "TRANSPORT", str |-> <<>>, rest |-> n.rest]
            ELSE IF huffman = 1
            THEN LET d == HuffmanDecodeBits(BytesToBits(Take(n.rest, n.value)), <<>>)
                 IN  [rc |-> d.rc, str |-> d.str,
                      rest |-> IF d.rc = CNO_OK THEN Drop(n.rest, n.value) ELSE n.rest]
            ELSE [rc |-> CNO_OK, str |-> Take(n.rest, n.value),
                  rest |-> Drop(n.rest, n.value)]

(* the continuation bytes written by the loop of cno_hpack_encode_uint,    *)
(* which fills the buffer from its end towards its start                   *)
RECURSIVE EncodeUintLoop(_, _)
EncodeUintLoop(num, bytes) ==
   IF num = 0 THEN bytes
   ELSE EncodeUintLoop(num \div 128,
           <<(num % 128) + (IF bytes = <<>> THEN 0 ELSE 128)>> \o bytes)

cno_hpack_encode_uint(prefix, num, mark) ==
   LET mask == Pow2(prefix) - 1
   IN  IF num \div Pow2(prefix) = 0 /\ num # mask
       THEN <<mark + num>>
       ELSE <<mark + mask>> \o EncodeUintLoop(num - mask, <<>>)

cno_hpack_encode_string(source) ==
   LET h == HuffmanEncode(source)
   IN  IF Len(source) > 0 /\ Len(h) < Len(source)
       THEN cno_hpack_encode_uint(7, Len(h), 128) \o h
       ELSE cno_hpack_encode_uint(7, Len(source), 0) \o source

(***************************************************************************)
(* One header representation.  Returns [rc, state, header, present, rest]; *)
(* present is FALSE when neither name.data nor value.data was set, which   *)
(* is the case after a dynamic table size update.                          *)
(***************************************************************************)
DecodeFail(state, source) ==
   [rc |-> "TRANSPORT", state |-> state, header |-> Header(<<>>, <<>>),
    present |-> FALSE, rest |-> source]

(* cno_hpack_decode_one without the test against limit_upper *)
cno_hpack_decode_one_anysize(state, source) ==
   IF source = <<>> THEN DecodeFail(state, source)
   ELSE
   LET head == Head(source) IN
   IF head \div 128 = 1
   THEN (* indexed header field *)
        LET n == Call("cno_hpack_decode_uint", <<source, 7>>)
            f == Call("cno_hpack_find_index", <<state, n.value>>)
        IN  IF n.rc # CNO_OK \/ f.rc # CNO_OK
            THEN DecodeFail(state, n.rest)
            ELSE [rc |-> CNO_OK, state |-> state, header |-> f.header,
                  present |-> TRUE, rest |-> n.rest]
   ELSE IF head \div 32 = 1
   THEN (* dynamic table size update *)
        LET n == Call("cno_hpack_decode_uint", <<source, 5>>)
        IN  IF n.rc # CNO_OK THEN DecodeFail(state, n.rest)
            ELSE [rc |-> CNO_OK,
                  state |-> cno_hpack_evict([state EXCEPT !.limit = n.value]),
                  header |-> Header(<<>>, <<>>), present |-> FALSE, rest |-> n.rest]
   ELSE IF ~(head \div 64 = 1 \/ head \div 16 = 0 \/ head \div 16 = 1)
   THEN DecodeFail(state, source)
   ELSE
   LET indexed == IF head \div 64 = 1 THEN 1 ELSE 0
       n       == Call("cno_hpack_decode_uint", <<source, 4 + 2 * indexed>>)
   IN
   IF n.rc # CNO_OK THEN DecodeFail(state, n.rest)
   ELSE
   LET nm == IF n.value = 0
             THEN Call("cno_hpack_decode_string", <<n.rest>>)
             ELSE LET f == Call("cno_hpack_find_index", <<state, n.value>>)
                  IN  [rc |-> f.rc, str |-> f.header.name, rest |-> n.rest]
   IN
   IF nm.rc # CNO_OK THEN DecodeFail(state, nm.rest)
   ELSE
   LET v == Call("cno_hpack_decode_string", <<nm.rest>>)
   IN
   IF v.rc # CNO_OK THEN DecodeFail(state, v.rest)
   ELSE [rc |-> CNO_OK,
         state |-> IF indexed = 1
                   THEN cno_hpack_index(state, Header(nm.str, v.str))
                   ELSE state,
         header |-> Header(nm.str, v.str), present |-> TRUE, rest |-> v.rest]

cno_hpack_decode_one(state, source) ==
   IF source = <<>> THEN DecodeFail(state, source)
   ELSE
   LET head == Head(source) IN
   IF head \div 128 = 1
   THEN (* indexed header field *)
        LET n == Call("cno_hpack_decode_uint", <<source, 7>>)
            f == Call("cno_hpack_find_index", <<state, n.value>>)
        IN  IF n.rc # CNO_OK \/ f.rc # CNO_OK
            THEN DecodeFail(state, n.rest)
            ELSE [rc |-> CNO_OK, state |-> state, header |-> f.header,
                  present |-> TRUE, rest |-> n.rest]
   ELSE IF head \div 32 = 1
   THEN (* dynamic table size update *)
        LET n == Call("cno_hpack_decode_uint", <<source, 5>>)
        IN  IF n.rc # CNO_OK THEN DecodeFail(state, n.rest)
            ELSE IF n.value > state.limit_upper THEN DecodeFail(state, n.rest)
            ELSE [rc |-> CNO_OK,
                  state |-> cno_hpack_evict([state EXCEPT !.limit = n.value]),
                  header |-> Header(<<>>, <<>>), present |-> FALSE, rest |-> n.rest]
   ELSE IF ~(head \div 64 = 1 \/ head \div 16 = 0 \/ head \div 16 = 1)
   THEN DecodeFail(state, source)
   ELSE
   LET indexed == IF head \div 64 = 1 THEN 1 ELSE 0
       n       == Call("cno_hpack_decode_uint", <<source, 4 + 2 * indexed>>)
   IN
   IF n.rc # CNO_OK THEN DecodeFail(state, n.rest)
   ELSE
   LET nm == IF n.value = 0
             THEN Call("cno_hpack_decode_string", <<n.rest>>)
             ELSE LET f == Call("cno_hpack_find_index", <<state, n.value>>)
                  IN  [rc |-> f.rc, str |-> f.header.name, rest |-> n.rest]
   IN
   IF nm.rc # CNO_OK THEN DecodeFail(state, nm.rest)
   ELSE
   LET v == Call("cno_hpack_decode_string", <<nm.rest>>)
   IN
   IF v.rc # CNO_OK THEN DecodeFail(state, v.rest)
   ELSE [rc |-> CNO_OK,
         state |-> IF indexed = 1
                   THEN cno_hpack_index(state, Header(nm.str, v.str))
                   ELSE state,
         header |-> Header(nm.str, v.str), present |-> TRUE, rest |-> v.rest]

(* returns [rc, state, headers]: at most maximum headers are decoded *)
RECURSIVE DecodeLoop(_, _, _, _)
DecodeLoop(state, source, array, maximum) ==
   IF ~(Len(array) < maximum /\ source # <<>>)
   THEN [rc |-> CNO_OK, state |-> state, headers |-> array]
   ELSE LET d == Call("cno_hpack_decode_one", <<state, source>>)
        IN  IF d.rc # CNO_OK
            THEN [rc |-> d.rc, state |-> d.state, headers |-> <<>>]
            ELSE DecodeLoop(d.state, d.rest,
                            IF d.present THEN Append(array, d.header) ELSE array,
                            maximum)

cno_hpack_decode(state, source, limit) ==
   DecodeLoop(state, source, <<>>, limit)

(***************************************************************************)
(* Encoder.  Each operator returns [state, out]: the codec state and the   *)
(* bytes appended to the target.                                           *)
(***************************************************************************)
cno_hpack_encode_size_update(state, size) ==
   [state |-> [state EXCEPT !.limit = size],
    out   |-> cno_hpack_encode_uint(5, size, 32)]

cno_hpack_encode_one(state, source, indexed) ==
   LET m == Call("cno_hpack_compare_index", <<state, source>>)
       strings == (IF m.match = 0 THEN Call("cno_hpack_encode_string", <<source.name>>) ELSE <<>>)
                  \o Call("cno_hpack_encode_string", <<source.value>>)
   IN  IF indexed = 0
       THEN [state |-> state,
             out |-> cno_hpack_encode_uint(4, m.index, 16) \o strings]
       ELSE IF m.match = 2
       THEN [state |-> state, out |-> cno_hpack_encode_uint(7, m.index, 128)]
       ELSE [state |-> cno_hpack_index(state, source),
             out |-> cno_hpack_encode_uint(6, m.index, 64) \o strings]

cno_hpack_setlimit(state, limit) ==
   [state EXCEPT
      !.limit_update_min = IF @ > limit THEN limit ELSE @,
      !.limit_update_end = limit]

RECURSIVE EncodeLoop(_, _, _)
EncodeLoop(state, array, out) ==
   IF array = <<>> THEN [state |-> state, out |-> out]
   ELSE LET e == Call("cno_hpack_encode_one", <<state, Head(array), 1>>)
        IN  EncodeLoop(e.state, Tail(array), out \o e.out)

cno_hpack_encode(state, array) ==
   LET u1 == IF state.limit # state.limit_update_min
             THEN cno_hpack_encode_size_update(state, state.limit_update_min)
             ELSE [state |-> state, out |-> <<>>]
       u2 == IF u1.state.limit # u1.state.limit_update_end
             THEN LET u == cno_hpack_encode_size_update(u1.state, u1.state.limit_update_end)
                  IN  [state |-> [u.state EXCEPT !.limit_update_min = u.state.limit],
                       out |-> u.out]
             ELSE [state |-> u1.state, out |-> <<>>]
   IN  EncodeLoop(u2.state, array, u1.out \o u2.out)

(***************************************************************************)
(* The connection engine (src/unnamed/part_000).                           *)
(*                                                                         *)
(* A connection value holds the fields of struct cno_connection_t and the  *)
(* context of the API call in progress: cb, the callbacks fired by the     *)
(* call in order (on_write and on_frame_send included); rc, the value the  *)
(* call returns; fail, the callbacks the application fails in this call.   *)
(***************************************************************************)
CNO_REMOTE == 0
CNO_LOCAL == 1

CNO_MAX_HEADERS == 64
CNO_MAX_CONTINUATIONS == 3
CNO_STREAM_BUCKETS == 61
CNO_STREAM_RESET_HISTORY == 7

(* A uint32_t is held as the int32_t that has the same 32 bits, so that   *)
(* the values from 2^31 up are the negative ones and (uint32_t) -1 is -1. *)
(* ULt is < on uint32_t.                                                   *)
UINT32_MAX == -1
INT32_MAX == 2147483647

ULt(a, b) ==
   IF (a < 0) = (b < 0) THEN a < b ELSE b < 0

ULe(a, b) ==
   a = b \/ ULt(a, b)

(* x & 0x7FFFFFFF *)
Low31(x) ==
   IF x < 0 THEN (x + INT32_MAX) + 1 ELSE x

(* a - n on uint32_t for 0 <= n <= a *)
USub(a, n) ==
   IF a >= 0 \/ (a + INT32_MAX) + 1 >= n THEN a - n
   ELSE (((a + INT32_MAX) + 1) - n) + INT32_MAX + 1

(* a * 10 + d on uint32_t, wrapping: the two 16-bit halves apart *)
UMul10Add(a, d) ==
   LET lo  == a % 65536
       hi  == ((a - lo) \div 65536) % 65536
       lo1 == lo * 10 + d
       hi1 == (hi * 10 + lo1 \div 65536) % 65536
   IN  (IF hi1 >= 32768 THEN hi1 - 65536 ELSE hi1) * 65536 + (lo1 % 65536)

CNO_FRAME_DATA == 0
CNO_FRAME_HEADERS == 1
CNO_FRAME_PRIORITY == 2
CNO_FRAME_RST_STREAM == 3
CNO_FRAME_SETTINGS == 4
CNO_FRAME_PUSH_PROMISE == 5
CNO_FRAME_PING == 6
CNO_FRAME_GOAWAY == 7
CNO_FRAME_WINDOW_UPDATE == 8
CNO_FRAME_CONTINUATION == 9
CNO_FRAME_UNKNOWN == 10

CNO_FLAG_ACK == 1
CNO_FLAG_END_STREAM == 1
CNO_FLAG_END_HEADERS == 4
CNO_FLAG_PADDED == 8
CNO_FLAG_PRIORITY == 32

CNO_RST_NO_ERROR == 0
CNO_RST_PROTOCOL_ERROR == 1
CNO_RST_FLOW_CONTROL_ERROR == 3
CNO_RST_STREAM_CLOSED == 5
CNO_RST_FRAME_SIZE_ERROR == 6
CNO_RST_COMPRESSION_ERROR == 9
CNO_RST_ENHANCE_YOUR_CALM == 11

CNO_SETTINGS_UNDEFINED == 7

(* enum CNO_STREAM_ACCEPT, as sets of flag names (spec section 3) *)
CNO_ACCEPT_INBOUND ==
   {"HEADERS", "DATA", "TRAILERS"}

CNO_ACCEPT_OUTBOUND ==
   {"WRITE_HEADERS", "WRITE_DATA", "WRITE_PUSH"}

(* settings are the array of six values, identifiers 1..6 *)
CNO_SETTINGS_STANDARD ==
   <<4096, 1, UINT32_MAX, 65535, 16384, UINT32_MAX>>

CNO_SETTINGS_CONSERVATIVE ==
   <<4096, 1, 100, 65535, 16384, UINT32_MAX>>

CNO_SETTINGS_INITIAL ==
   <<4096, 1, 1024, 65535, 16384, UINT32_MAX>>

header_table_size == 1
enable_push == 2
max_concurrent_streams == 3
initial_window_size == 4
max_frame_size == 5
max_header_list_size == 6

CNO_PREFACE ==
   <<80, 82, 73, 32, 42, 32, 72, 84, 84, 80, 47, 50, 46, 48, 13, 10,
     13, 10, 83, 77, 13, 10, 13, 10>>

(* bit tests on a flags byte; f is a single bit *)
HasFlag(x, f) ==
   (x \div f) % 2 = 1

ClearFlag(x, f) ==
   IF HasFlag(x, f) THEN x - f ELSE x

SetFlag(x, f) ==
   IF f = 0 \/ HasFlag(x, f) THEN x ELSE x + f

(* big-endian packing and reading: I8, I16, I24, I32 and read1..read4 *)
RECURSIVE Pack(_, _)
Pack(x, n) ==
   IF n = 0 THEN <<>> ELSE Pack(x \div 256, n - 1) \o <<x % 256>>

RECURSIVE ReadN(_, _)
ReadN(p, n) ==
   IF n = 0 THEN 0 ELSE ReadN(p, n - 1) * 256 + p[n]

read1(p) == ReadN(p, 1)
read2(p) == ReadN(p, 2)
read3(p) == ReadN(p, 3)
read4(p) == (IF p[1] >= 128 THEN p[1] - 256 ELSE p[1]) * 16777216 + ReadN(Tail(p), 3)

(* uint32_t to int32_t: the same bits *)
ToInt32(x) ==
   x

NoMsg ==
   [code |-> 0, method |-> <<>>, path |-> <<>>, headers |-> <<>>]

(* struct cno_frame_t.  payload is the bytes and size is payload.size; the  *)
(* body handed to cno_write_data is opaque to the engine, so a frame that  *)
(* carries it has only its size (Blob).                                    *)
Frame(type, flags, stream, payload) ==
   [type |-> type, flags |-> flags, stream |-> stream, payload |-> payload,
    size |-> Len(payload)]

Blob(type, flags, stream, size) ==
   [type |-> type, flags |-> flags, stream |-> stream, payload |-> <<>>,
    size |-> size]

NoFrame ==
   Frame(0, 0, 0, <<>>)

(* one fired callback *)
Event(ev, id, data, msg, frame, aux) ==
   [ev |-> ev, id |-> id, data |-> data, msg |-> msg, frame |-> frame, aux |-> aux]

Ok(c) ==
   c.rc = CNO_OK

CNO_ERROR(c, kind) ==
   [c EXCEPT !.rc = kind]

(* CNO_FIRE: the callback runs; it fails when the application says so *)
CNO_FIRE(c, ev) ==
   [c EXCEPT !.cb = Append(@, ev),
             !.rc = IF ev.ev \in c.fail THEN "CALLBACK" ELSE CNO_OK]

(* on_write(data, length): aux is the length *)
on_write(c, data, length) ==
   CNO_FIRE(c, Event("on_write", 0, data, NoMsg, NoFrame, length))

cno_connection_init(kind) ==
   [client |-> IF kind = "CLIENT" THEN 1 ELSE 0,
    state |-> "UNDEFINED",
    flags |-> {},
    on_upgrade |-> FALSE,
    buffer |-> <<>>,
    continued |-> <<>>,
    continued_flags |-> 0,
    continued_stream |-> 0,
    continued_promise |-> 0,
    settings |-> (CNO_REMOTE :> CNO_SETTINGS_CONSERVATIVE @@ CNO_LOCAL :> CNO_SETTINGS_INITIAL),
    decoder |-> cno_hpack_init(CNO_SETTINGS_INITIAL[header_table_size]),
    encoder |-> cno_hpack_init(CNO_SETTINGS_STANDARD[header_table_size]),
    streams |-> [b \in 0..(CNO_STREAM_BUCKETS - 1) |-> <<>>],
    last_stream |-> (CNO_REMOTE :> 0 @@ CNO_LOCAL :> 0),
    stream_count |-> (CNO_REMOTE :> 0 @@ CNO_LOCAL :> 0),
    window_recv |-> CNO_SETTINGS_STANDARD[initial_window_size],
    window_send |-> CNO_SETTINGS_STANDARD[initial_window_size],
    goaway_sent |-> 0,
    http1_remaining |-> 0,
    recently_reset |-> [i \in 0..(CNO_STREAM_RESET_HISTORY - 1) |-> 0],
    recently_reset_next |-> 0,
    cb |-> <<>>, rc |-> CNO_OK, ret |-> 0, fail |-> {}, app |-> {},
    ub |-> "crash"]

cno_connection_is_http2(c) ==
   c.state \in {"INIT", "PREFACE", "READY", "READY_NO_SETTINGS", "HTTP1_READING_UPGRADE"}

(* id % CNO_STREAM_BUCKETS on uint32_t: 2^32 leaves 57 when divided by 61 *)
Bucket(id) ==
   IF id >= 0 THEN id % CNO_STREAM_BUCKETS
   ELSE ((id % CNO_STREAM_BUCKETS) + 57) % CNO_STREAM_BUCKETS

cno_stream_is_local(c, id) ==
   IF id % 2 = c.client THEN 1 ELSE 0

(* cno_stream_find: the index of the stream in its bucket, 0 when absent *)
StreamIndex(c, id) ==
   LET b == c.streams[Bucket(id)]
       hits == {i \in 1..Len(b) : b[i].id = id}
   IN  IF hits = {} THEN 0 ELSE SetMin(hits)

cno_stream_find(c, id) ==
   StreamIndex(c, id) # 0

Stream(c, id) ==
   c.streams[Bucket(id)][StreamIndex(c, id)]

SetAccept(c, id, accept) ==
   [c EXCEPT !.streams[Bucket(id)][StreamIndex(c, id)].accept = accept]

RemoveAt(s, i) ==
   SubSeq(s, 1, i - 1) \o SubSeq(s, i + 1, Len(s))

(* the strings the engine compares header names and values with *)
STR_P_status ==
   <<58, 115, 116, 97, 116, 117, 115>>

STR_P_path ==
   <<58, 112, 97, 116, 104>>

STR_P_method ==
   <<58, 109, 101, 116, 104, 111, 100>>

STR_P_authority ==
   <<58, 97, 117, 116, 104, 111, 114, 105, 116, 121>>

STR_P_scheme ==
   <<58, 115, 99, 104, 101, 109, 101>>

STR_unknown ==
   <<117, 110, 107, 110, 111, 119, 110>>

STR_host ==
   <<104, 111, 115, 116>>

STR_upgrade ==
   <<117, 112, 103, 114, 97, 100, 101>>

STR_h2c ==
   <<104, 50, 99>>

STR_connection ==
   <<99, 111, 110, 110, 101, 99, 116, 105, 111, 110>>

STR_content_length ==
   <<99, 111, 110, 116, 101, 110, 116, 45, 108, 101, 110, 103, 116, 104>>

STR_transfer_encoding ==
   <<116, 114, 97, 110, 115, 102, 101, 114, 45, 101, 110, 99, 111, 100, 105, 110, 103>>

STR_identity ==
   <<105, 100, 101, 110, 116, 105, 116, 121>>

STR_http2_settings ==
   <<104, 116, 116, 112, 50, 45, 115, 101, 116, 116, 105, 110, 103, 115>>

STR_cookie ==
   <<99, 111, 111, 107, 105, 101>>

STR_HTTP11_SP ==
   <<72, 84, 84, 80, 47, 49, 46, 49, 32>>

STR_SP_SOMETHING ==
   <<32, 83, 111, 109, 101, 116, 104, 105, 110, 103, 13, 10>>

STR_SP_HTTP11 ==
   <<32, 72, 84, 84, 80, 47, 49, 46, 49, 13, 10>>

STR_TE_CHUNKED ==
   <<116, 114, 97, 110, 115, 102, 101, 114, 45, 101, 110, 99, 111, 100, 105, 110, 103, 58, 32, 99, 104, 117, 110, 107, 101, 100, 13, 10>>

STR_KEEP_ALIVE ==
   <<99, 111, 110, 110, 101, 99, 116, 105, 111, 110, 58, 32, 107, 101, 101, 112, 45, 97, 108, 105, 118, 101, 13, 10>>

STR_chunked ==
   <<99, 104, 117, 110, 107, 101, 100>>

STR_c_sp_chunked ==
   <<44, 32, 99, 104, 117, 110, 107, 101, 100>>

STR_c_chunked ==
   <<44, 99, 104, 117, 110, 107, 101, 100>>

STR_CRLF ==
   <<13, 10>>

STR_LAST_CHUNK ==
   <<48, 13, 10, 13, 10>>

STR_COLON_SP ==
   <<58, 32>>


(***************************************************************************)
(* Streams.                                                                *)
(***************************************************************************)
NewStream(c, id) ==
   [id |-> id, accept |-> {},
    window_recv |-> ToInt32(c.settings[CNO_LOCAL][initial_window_size]),
    window_send |-> ToInt32(c.settings[CNO_REMOTE][initial_window_size])]

(* cno_stream_new without `if (id <= conn->last_stream[local])` *)
cno_stream_new_nonmonotonic(c, id, local) ==
   IF cno_stream_is_local(c, id) # local
   THEN CNO_ERROR(c, "INVALID_STREAM")
   ELSE IF ~cno_connection_is_http2(c) /\ id # 1
   THEN CNO_ERROR(c, "INVALID_STREAM")
   ELSE IF ULe(c.settings[1 - local][max_concurrent_streams], c.stream_count[local])
   THEN CNO_ERROR(c, IF local = CNO_LOCAL THEN "WOULD_BLOCK" ELSE "TRANSPORT")
   ELSE LET b  == Bucket(id)
            c1 == [c EXCEPT !.last_stream[local] = id,
                            !.streams[b] = <<NewStream(c, id)>> \o @,
                            !.stream_count[local] = @ + 1]
            c2 == CNO_FIRE(c1, Event("on_stream_start", id, <<>>, NoMsg, NoFrame, 0))
        IN  IF ~Ok(c2)
            THEN [c2 EXCEPT !.streams[b] = Tail(@),
                            !.stream_count[local] = @ - 1]
            ELSE c2

(* cno_stream_new without `conn->stream_count[local]--` in the rollback *)
cno_stream_new_norollback(c, id, local) ==
   IF cno_stream_is_local(c, id) # local
   THEN CNO_ERROR(c, "INVALID_STREAM")
   ELSE IF cno_connection_is_http2(c) /\ ULe(id, c.last_stream[local])
   THEN CNO_ERROR(c, "INVALID_STREAM")
   ELSE IF ~cno_connection_is_http2(c) /\ id # 1
   THEN CNO_ERROR(c, "INVALID_STREAM")
   ELSE IF ULe(c.settings[1 - local][max_concurrent_streams], c.stream_count[local])
   THEN CNO_ERROR(c, IF local = CNO_LOCAL THEN "WOULD_BLOCK" ELSE "TRANSPORT")
   ELSE LET b  == Bucket(id)
            c1 == [c EXCEPT !.last_stream[local] = id,
                            !.streams[b] = <<NewStream(c, id)>> \o @,
                            !.stream_count[local] = @ + 1]
            c2 == CNO_FIRE(c1, Event("on_stream_start", id, <<>>, NoMsg, NoFrame, 0))
        IN  IF ~Ok(c2)
            THEN [c2 EXCEPT !.streams[b] = Tail(@)]
            ELSE c2

(* cno_stream_new without the test of max_concurrent_streams *)
cno_stream_new_nolimit(c, id, local) ==
   IF cno_stream_is_local(c, id) # local
   THEN CNO_ERROR(c, "INVALID_STREAM")
   ELSE IF cno_connection_is_http2(c) /\ ULe(id, c.last_stream[local])
   THEN CNO_ERROR(c, "INVALID_STREAM")
   ELSE IF ~cno_connection_is_http2(c) /\ id # 1
   THEN CNO_ERROR(c, "INVALID_STREAM")
   ELSE LET b  == Bucket(id)
            c1 == [c EXCEPT !.last_stream[local] = id,
                            !.streams[b] = <<NewStream(c, id)>> \o @,
                            !.stream_count[local] = @ + 1]
            c2 == CNO_FIRE(c1, Event("on_stream_start", id, <<>>, NoMsg, NoFrame, 0))
        IN  IF ~Ok(c2)
            THEN [c2 EXCEPT !.streams[b] = Tail(@),
                            !.stream_count[local] = @ - 1]
            ELSE c2

cno_stream_new(c, id, local) ==
   IF cno_stream_is_local(c, id) # local
   THEN CNO_ERROR(c, "INVALID_STREAM")
   ELSE IF cno_connection_is_http2(c) /\ ULe(id, c.last_stream[local])
   THEN CNO_ERROR(c, "INVALID_STREAM")
   ELSE IF ~cno_connection_is_http2(c) /\ id # 1
   THEN CNO_ERROR(c, "INVALID_STREAM")
   ELSE IF ULe(c.settings[1 - local][max_concurrent_streams], c.stream_count[local])
   THEN CNO_ERROR(c, IF local = CNO_LOCAL THEN "WOULD_BLOCK" ELSE "TRANSPORT")
   ELSE LET b  == Bucket(id)
            c1 == [c EXCEPT !.last_stream[local] = id,
                            !.streams[b] = <<NewStream(c, id)>> \o @,
                            !.stream_count[local] = @ + 1]
            c2 == CNO_FIRE(c1, Event("on_stream_start", id, <<>>, NoMsg, NoFrame, 0))
        IN  IF ~Ok(c2)
            THEN [c2 EXCEPT !.streams[b] = Tail(@),
                            !.stream_count[local] = @ - 1]
            ELSE c2

cno_stream_free(c, id) ==
   LET b == Bucket(id)
   IN  [c EXCEPT !.stream_count[cno_stream_is_local(c, id)] = @ - 1,
                 !.streams[b] = RemoveAt(@, StreamIndex(c, id))]

cno_stream_rst(c, id) ==
   CNO_FIRE(Call("cno_stream_free", <<c, id>>), Event("on_stream_end", id, <<>>, NoMsg, NoFrame, 0))

(***************************************************************************)
(* Writing frames.                                                         *)
(***************************************************************************)
FrameHeader(length, frame) ==
   Pack(length, 3) \o Pack(frame.type, 1) \o Pack(frame.flags, 1) \o Pack(frame.stream, 4)

(* a frame that fits the limit: on_frame_send, the header, the payload *)
FrameWriteOne(c, frame) ==
   LET c1 == CNO_FIRE(c, Event("on_frame_send", frame.stream, <<>>, NoMsg, frame, 0))
       c2 == on_write(c1, FrameHeader(frame.size, frame), 9)
   IN  IF ~Ok(c1) THEN c1
       ELSE IF ~Ok(c2) THEN c2
       ELSE IF frame.size # 0 THEN on_write(c2, frame.payload, frame.size)
       ELSE c2

(* the while loop of cno_frame_write and the write of the last part: data  *)
(* and length are what is left of the payload, part carries type and flags *)
FrameWriteParts(c, part, data, length, limit, last_flags) ==
   IF length > limit
   THEN LET c1 == Call("FrameWriteOne", <<c, [part EXCEPT !.payload = Take(data, limit),
                                                !.size = limit]>>)
            p1 == [part EXCEPT
                     !.flags = ClearFlag(ClearFlag(@, CNO_FLAG_PRIORITY), CNO_FLAG_END_STREAM),
                     !.type  = IF @ # CNO_FRAME_DATA THEN CNO_FRAME_CONTINUATION ELSE @]
        IN  IF ~Ok(c1) THEN c1
            ELSE Call("FrameWriteParts", <<c1, p1, Drop(data, limit), length - limit, limit,
                                 last_flags>>)
   ELSE Call("FrameWriteOne", <<c, [part EXCEPT !.flags = SetFlag(@, last_flags),
                                      !.payload = data, !.size = length]>>)

(* cno_frame_write without `part.flags &= ~carry_on_last` *)
cno_frame_write_carryfirst(c, frame) ==
   LET length == frame.size
       limit  == c.settings[CNO_REMOTE][max_frame_size]
   IN  IF length <= limit THEN Call("FrameWriteOne", <<c, frame>>)
       ELSE IF HasFlag(frame.flags, CNO_FLAG_PADDED)
       THEN CNO_ERROR(c, "ASSERTION")
       ELSE IF frame.type # CNO_FRAME_DATA /\ frame.type # CNO_FRAME_HEADERS
               /\ frame.type # CNO_FRAME_PUSH_PROMISE
       THEN CNO_ERROR(c, "ASSERTION")
       ELSE LET carry_on_last == IF frame.type = CNO_FRAME_DATA
                                 THEN CNO_FLAG_END_STREAM ELSE CNO_FLAG_END_HEADERS
                part == frame
            IN  Call("FrameWriteParts", <<c, part, frame.payload, length, limit,
                   IF HasFlag(frame.flags, carry_on_last) THEN carry_on_last ELSE 0>>)

cno_frame_write(c, frame) ==
   LET length == frame.size
       limit  == c.settings[CNO_REMOTE][max_frame_size]
   IN  IF length <= limit THEN Call("FrameWriteOne", <<c, frame>>)
       ELSE IF HasFlag(frame.flags, CNO_FLAG_PADDED)
       THEN CNO_ERROR(c, "ASSERTION")
       ELSE IF frame.type # CNO_FRAME_DATA /\ frame.type # CNO_FRAME_HEADERS
               /\ frame.type # CNO_FRAME_PUSH_PROMISE
       THEN CNO_ERROR(c, "ASSERTION")
       ELSE LET carry_on_last == IF frame.type = CNO_FRAME_DATA
                                 THEN CNO_FLAG_END_STREAM ELSE CNO_FLAG_END_HEADERS
                part == [frame EXCEPT !.flags = ClearFlag(@, carry_on_last)]
            IN  Call("FrameWriteParts", <<c, part, frame.payload, length, limit,
                   IF HasFlag(frame.flags, carry_on_last) THEN carry_on_last ELSE 0>>)

(* one 6-byte entry for every setting that differs *)
RECURSIVE SettingsPayload(_, _, _)
SettingsPayload(previous, current, i) ==
   IF i >= CNO_SETTINGS_UNDEFINED THEN <<>>
   ELSE (IF previous[i] # current[i] THEN Pack(i, 2) \o Pack(current[i], 4) ELSE <<>>)
        \o SettingsPayload(previous, current, i + 1)

cno_frame_write_settings(c, previous, current) ==
   Call("cno_frame_write", <<c, Frame(CNO_FRAME_SETTINGS, 0, 0, SettingsPayload(previous, current, 1))>>)

cno_stream_rst_by_local(c, id) ==
   cno_stream_rst(
      [c EXCEPT !.recently_reset[c.recently_reset_next] = id,
                !.recently_reset_next = (@ + 1) % CNO_STREAM_RESET_HISTORY],
      id)

cno_frame_write_rst_stream(c, id, code) ==
   LET c1 == Call("cno_frame_write", <<c, Frame(CNO_FRAME_RST_STREAM, 0, id, Pack(code, 4))>>)
   IN  IF ~Ok(c1) THEN c1
       ELSE IF "HEADERS" \notin Stream(c1, id).accept
       THEN cno_stream_rst_by_local(c1, id)
       ELSE SetAccept(c1, id,
               (Stream(c1, id).accept \ CNO_ACCEPT_OUTBOUND) \cup {"NOP_HEADERS"})

cno_frame_write_goaway(c, code) ==
   LET c1 == IF c.goaway_sent # 0
             THEN [c EXCEPT !.goaway_sent = c.last_stream[CNO_REMOTE]]
             ELSE c
   IN  Call("cno_frame_write", <<c1, Frame(CNO_FRAME_GOAWAY, 0, 0,
                                 Pack(c1.goaway_sent, 4) \o Pack(code, 4))>>)

cno_frame_write_error(c, type) ==
   LET c1 == cno_frame_write_goaway(c, type)
   IN  IF ~Ok(c1) THEN c1 ELSE CNO_ERROR(c1, "TRANSPORT")

(* cno_frame_handle_end_stream without `stream->accept &= ~CNO_ACCEPT_INBOUND` *)
cno_frame_handle_end_stream_keepinbound(c, id) ==
   LET half_open == Stream(c, id).accept # {}
       c1 == CNO_FIRE(c, Event("on_message_end", id, <<>>, NoMsg, NoFrame, 0))
   IN  IF ~Ok(c1) THEN c1
       ELSE IF half_open THEN c1
       ELSE cno_stream_rst(c1, id)

cno_frame_handle_end_stream(c, id) ==
   LET accept    == Stream(c, id).accept \ CNO_ACCEPT_INBOUND
       half_open == accept # {}
       c1 == CNO_FIRE(SetAccept(c, id, accept),
                      Event("on_message_end", id, <<>>, NoMsg, NoFrame, 0))
   IN  IF ~Ok(c1) THEN c1
       ELSE IF half_open THEN c1
       ELSE cno_stream_rst(c1, id)
(***************************************************************************)
(* Header validation.                                                      *)
(***************************************************************************)
IsPseudo(h) ==
   Len(h.name) > 0 /\ h.name[1] = 58

HasUpper(name) ==
   \E i \in 1..Len(name) : 65 <= name[i] /\ name[i] <= 90

AllDigits(v) ==
   \A i \in 1..Len(v) : 48 <= v[i] /\ v[i] <= 57

RECURSIVE ParseDigits(_, _)
ParseDigits(v, acc) ==
   IF v = <<>> THEN acc ELSE ParseDigits(Tail(v), acc * 10 + (Head(v) - 48))

(* the number of leading headers whose name starts with ':' *)
RECURSIVE PseudoCount(_)
PseudoCount(hs) ==
   IF hs = <<>> \/ ~IsPseudo(Head(hs)) THEN 0 ELSE 1 + PseudoCount(Tail(hs))

(* the loop `while (it-- != msg->headers)`: it walks the pseudo-headers    *)
(* from the last to the first.  st is                                      *)
(* [bad, code, has_code, method, has_method, path, has_path, has_scheme,   *)
(*  saved]; saved collects the headers kept by save_header, which end up,  *)
(* in their original order, right before the regular headers.              *)
RECURSIVE PseudoLoop(_, _, _, _, _)
PseudoLoop(hs, it, st, is_response, trailers) ==
   IF it = 0 \/ st.bad THEN st
   ELSE LET h == hs[it] IN
        IF trailers THEN [st EXCEPT !.bad = TRUE]
        ELSE IF is_response
        THEN IF h.name = STR_P_status
             THEN IF st.code # 0 \/ ~AllDigits(h.value)
                  THEN [st EXCEPT !.bad = TRUE]
                  ELSE PseudoLoop(hs, it - 1,
                          [st EXCEPT !.code = ParseDigits(h.value, 0)],
                          is_response, trailers)
             ELSE [st EXCEPT !.bad = TRUE]
        ELSE IF h.name = STR_P_path
        THEN IF st.has_path THEN [st EXCEPT !.bad = TRUE]
             ELSE PseudoLoop(hs, it - 1,
                     [st EXCEPT !.path = h.value, !.has_path = TRUE],
                     is_response, trailers)
        ELSE IF h.name = STR_P_method
        THEN IF st.has_method THEN [st EXCEPT !.bad = TRUE]
             ELSE PseudoLoop(hs, it - 1,
                     [st EXCEPT !.method = h.value, !.has_method = TRUE],
                     is_response, trailers)
        ELSE IF h.name = STR_P_authority
        THEN PseudoLoop(hs, it - 1, [st EXCEPT !.saved = <<h>> \o @],
                        is_response, trailers)
        ELSE IF h.name = STR_P_scheme
        THEN IF st.has_scheme THEN [st EXCEPT !.bad = TRUE]
             ELSE PseudoLoop(hs, it - 1,
                     [st EXCEPT !.saved = <<h>> \o @, !.has_scheme = TRUE],
                     is_response, trailers)
        ELSE [st EXCEPT !.bad = TRUE]

(* HandleMessageChecked without `stream->accept |= CNO_ACCEPT_DATA` *)
HandleMessageChecked_nodata(c, id, frame, st, regular, is_response, trailers) ==
   LET msg == [code |-> st.code, method |-> st.method, path |-> st.path,
               headers |-> st.saved \o regular]
       invalid_message == Call("cno_frame_write_rst_stream", <<c, id, CNO_RST_PROTOCOL_ERROR>>)
   IN
   IF st.bad THEN invalid_message
   ELSE IF \E i \in 1..Len(regular) : IsPseudo(regular[i]) \/ HasUpper(regular[i].name)
   THEN invalid_message
   ELSE IF trailers
   THEN IF ~HasFlag(frame.flags, CNO_FLAG_END_STREAM) THEN invalid_message
        ELSE LET c1 == SetAccept(c, id, Stream(c, id).accept \ CNO_ACCEPT_INBOUND)
                 c2 == CNO_FIRE(c1, Event("on_message_trail", id, <<>>, msg, NoFrame, 0))
             IN  IF ~Ok(c2) THEN c2 ELSE Call("cno_frame_handle_end_stream", <<c2, id>>)
   ELSE IF (IF is_response THEN msg.code = 0
            ELSE ~st.has_path \/ Len(st.path) = 0 \/ ~st.has_method
                 \/ Len(st.method) = 0 \/ ~st.has_scheme)
   THEN invalid_message
   ELSE IF c.continued_promise # 0
   THEN CNO_FIRE(c, Event("on_message_push", id, <<>>, msg, NoFrame, c.continued_stream))
   ELSE LET acc == (Stream(c, id).accept \ {"HEADERS"}) \cup {"TRAILERS"}
            c1  == SetAccept(c, id, acc)
        IN  IF "NOP_HEADERS" \in acc
            THEN cno_stream_rst_by_local(c1, id)
            ELSE LET c2 == CNO_FIRE(c1, Event("on_message_start", id, <<>>, msg, NoFrame, 0))
                 IN  IF ~Ok(c2) THEN c2
                     ELSE IF HasFlag(frame.flags, CNO_FLAG_END_STREAM)
                     THEN Call("cno_frame_handle_end_stream", <<c2, id>>)
                     ELSE c2

(* the checks and callbacks that follow the loop over the pseudo-headers:   *)
(* st is what the loop left, regular the headers after the pseudo-headers  *)
HandleMessageChecked(c, id, frame, st, regular, is_response, trailers) ==
   LET msg == [code |-> st.code, method |-> st.method, path |-> st.path,
               headers |-> st.saved \o regular]
       invalid_message == Call("cno_frame_write_rst_stream", <<c, id, CNO_RST_PROTOCOL_ERROR>>)
   IN
   IF st.bad THEN invalid_message
   ELSE IF \E i \in 1..Len(regular) : IsPseudo(regular[i]) \/ HasUpper(regular[i].name)
   THEN invalid_message
   ELSE IF trailers
   THEN IF ~HasFlag(frame.flags, CNO_FLAG_END_STREAM) THEN invalid_message
        ELSE LET c1 == SetAccept(c, id, Stream(c, id).accept \ CNO_ACCEPT_INBOUND)
                 c2 == CNO_FIRE(c1, Event("on_message_trail", id, <<>>, msg, NoFrame, 0))
             IN  IF ~Ok(c2) THEN c2 ELSE Call("cno_frame_handle_end_stream", <<c2, id>>)
   ELSE IF (IF is_response THEN msg.code = 0
            ELSE ~st.has_path \/ Len(st.path) = 0 \/ ~st.has_method
                 \/ Len(st.method) = 0 \/ ~st.has_scheme)
   THEN invalid_message
   ELSE IF c.continued_promise # 0
   THEN CNO_FIRE(c, Event("on_message_push", id, <<>>, msg, NoFrame, c.continued_stream))
   ELSE LET acc == (Stream(c, id).accept \ {"HEADERS"}) \cup {"TRAILERS", "DATA"}
            c1  == SetAccept(c, id, acc)
        IN  IF "NOP_HEADERS" \in acc
            THEN cno_stream_rst_by_local(c1, id)
            ELSE LET c2 == CNO_FIRE(c1, Event("on_message_start", id, <<>>, msg, NoFrame, 0))
                 IN  IF ~Ok(c2) THEN c2
                     ELSE IF HasFlag(frame.flags, CNO_FLAG_END_STREAM)
                     THEN Call("cno_frame_handle_end_stream", <<c2, id>>)
                     ELSE c2

HandleMessagePseudo(c, id, frame, headers, first_non_pseudo, is_response, trailers) ==
   HandleMessageChecked(c, id, frame,
      PseudoLoop(headers, first_non_pseudo,
         [bad |-> FALSE, code |-> 0, method |-> <<>>, has_method |-> FALSE,
          path |-> <<>>, has_path |-> FALSE, has_scheme |-> FALSE,
          saved |-> <<>>],
         is_response, trailers),
      Drop(headers, first_non_pseudo), is_response, trailers)

cno_frame_handle_message(c, id, frame, headers) ==
   HandleMessagePseudo(c, id, frame, headers, PseudoCount(headers),
      c.client = 1 /\ c.continued_promise = 0,
      "TRAILERS" \in Stream(c, id).accept)

cno_frame_handle_end_headers(c, id, frame) ==
   LET d == cno_hpack_decode(c.decoder, c.continued, CNO_MAX_HEADERS)
   IN  IF d.rc # CNO_OK
       THEN LET g == cno_frame_write_goaway(
                        [c EXCEPT !.decoder = d.state, !.continued = <<>>],
                        CNO_RST_COMPRESSION_ERROR)
            IN  [g EXCEPT !.rc = IF Ok(g) THEN d.rc ELSE g.rc]
       ELSE LET failed == Call("cno_frame_handle_message", <<
                             [c EXCEPT !.decoder = d.state], id, frame, d.headers>>)
            IN  [failed EXCEPT !.continued = <<>>,
                               !.continued_stream = 0,
                               !.continued_promise = 0]

(***************************************************************************)
(* Frame handlers.  has is TRUE when cno_stream_find found frame.stream.   *)
(***************************************************************************)
(* returns [c, frame] *)
cno_frame_handle_padding(c, frame) ==
   IF HasFlag(frame.flags, CNO_FLAG_PADDED)
   THEN IF Len(frame.payload) = 0
        THEN [c |-> Call("cno_frame_write_error", <<c, CNO_RST_FRAME_SIZE_ERROR>>), frame |-> frame]
        ELSE LET padding == read1(frame.payload) + 1
             IN  IF padding > Len(frame.payload)
                 THEN [c |-> Call("cno_frame_write_error", <<c, CNO_RST_PROTOCOL_ERROR>>),
                       frame |-> frame]
                 ELSE [c |-> c,
                       frame |-> [frame EXCEPT !.payload =
                                     SubSeq(@, 2, Len(@) - padding + 1)]]
   ELSE [c |-> c, frame |-> frame]

cno_frame_handle_priority_prefix(c, has, frame) ==
   LET target == Low31(read4(frame.payload))
   IN  IF target = frame.stream
       THEN IF has
            THEN Call("cno_frame_write_rst_stream", <<c, frame.stream, CNO_RST_PROTOCOL_ERROR>>)
            ELSE Call("cno_frame_write_error", <<c, CNO_RST_PROTOCOL_ERROR>>)
       ELSE c

(* cno_frame_handle_headers from `conn->continued_flags = ...` on *)
HeadersContinued(c, id, frame) ==
   LET c3 == [c EXCEPT
                !.continued_flags = IF HasFlag(frame.flags, CNO_FLAG_END_STREAM)
                                    THEN CNO_FLAG_END_STREAM ELSE 0,
                !.continued_stream = id,
                !.continued = @ \o frame.payload]
   IN  IF HasFlag(frame.flags, CNO_FLAG_END_HEADERS)
       THEN Call("cno_frame_handle_end_headers", <<c3, id, frame>>)
       ELSE c3

(* cno_frame_handle_priority_prefix reset the stream, the reset freed it   *)
(* and returned 0, and cno_frame_handle_headers goes on with the dangling  *)
(* pointer: undefined behaviour.  c.ub is what the build makes of it.      *)
(* "crash": the process faults at the first access.  "stale": the freed    *)
(* memory still reads as the stream (old), so the handler runs on; what    *)
(* it stores into the freed struct is lost, and when it frees the stream   *)
(* a second time the walk of the bucket in cno_stream_free runs off the    *)
(* list and the process faults.                                            *)
UseAfterFree(c, old, frame) ==
   LET id == old.id
       b  == Bucket(id)
       k  == cno_stream_is_local(c, id)
       cs == [c EXCEPT !.streams[b] = <<old>> \o @, !.stream_count[k] = @ + 1]
       r  == HeadersContinued(cs, id, frame)
   IN  IF c.ub = "crash" THEN CNO_ERROR(c, "CRASH")
       ELSE IF ~cno_stream_find(r, id) THEN CNO_ERROR(c, "CRASH")
       ELSE [r EXCEPT !.streams[b] = RemoveAt(@, StreamIndex(r, id)),
                      !.stream_count[k] = @ - 1]

(* cno_frame_handle_headers from `if (stream->accept & CNO_ACCEPT_TRAILERS)` on *)
HeadersOnStream(c, frame) ==
   LET id == frame.stream
       trailers == "TRAILERS" \in Stream(c, id).accept
       c1 == IF trailers
             THEN SetAccept(c, id, Stream(c, id).accept \ {"DATA"})
             ELSE c
   IN
   IF trailers /\ ~HasFlag(frame.flags, CNO_FLAG_END_STREAM)
   THEN Call("cno_frame_write_error", <<c1, CNO_RST_PROTOCOL_ERROR>>)
   ELSE IF ~trailers /\ "HEADERS" \notin Stream(c, id).accept
   THEN Call("cno_frame_write_error", <<c1, CNO_RST_PROTOCOL_ERROR>>)
   ELSE IF HasFlag(frame.flags, CNO_FLAG_PRIORITY) /\ Len(frame.payload) < 5
   THEN Call("cno_frame_write_error", <<c1, CNO_RST_FRAME_SIZE_ERROR>>)
   ELSE
   LET c2 == IF HasFlag(frame.flags, CNO_FLAG_PRIORITY)
             THEN cno_frame_handle_priority_prefix(c1, TRUE, frame)
             ELSE c1
       f2 == IF HasFlag(frame.flags, CNO_FLAG_PRIORITY)
             THEN [frame EXCEPT !.payload = Drop(@, 5)]
             ELSE frame
   IN
   IF ~Ok(c2) THEN c2
   ELSE IF ~cno_stream_find(c2, id)
   THEN Call("UseAfterFree", <<c2, Stream(c1, id), f2>>)
   ELSE HeadersContinued(c2, id, f2)

cno_frame_handle_headers(c, has, frame0) ==
   LET p == cno_frame_handle_padding(c, frame0)
       frame == p.frame
   IN
   IF ~Ok(p.c) THEN p.c
   ELSE IF ~has
   THEN IF c.client = 1
        THEN Call("cno_frame_write_error", <<c, CNO_RST_PROTOCOL_ERROR>>)
        ELSE LET c1 == Call("cno_stream_new", <<c, frame.stream, CNO_REMOTE>>)
             IN  IF ~Ok(c1) THEN c1
                 ELSE Call("HeadersOnStream", <<
                         SetAccept(c1, frame.stream,
                                   {"HEADERS", "WRITE_HEADERS", "WRITE_PUSH"}),
                         frame>>)
   ELSE Call("HeadersOnStream", <<c, frame>>)

cno_frame_handle_push_promise(c, has, frame0) ==
   LET p == cno_frame_handle_padding(c, frame0)
       frame == p.frame
   IN
   IF ~Ok(p.c) THEN p.c
   ELSE IF c.settings[CNO_LOCAL][enable_push] = 0 \/ ~has
           \/ "PUSH" \notin Stream(c, frame.stream).accept
   THEN Call("cno_frame_write_error", <<c, CNO_RST_PROTOCOL_ERROR>>)
   ELSE IF Len(frame.payload) < 4
   THEN Call("cno_frame_write_error", <<c, CNO_RST_FRAME_SIZE_ERROR>>)
   ELSE
   LET promised == read4(frame.payload)
       c1 == Call("cno_stream_new", <<c, promised, CNO_REMOTE>>)
   IN
   IF ~Ok(c1) THEN c1
   ELSE LET c2 == [SetAccept(c1, promised, {"HEADERS"}) EXCEPT
                     !.continued_flags = 0,
                     !.continued_stream = frame.stream,
                     !.continued_promise = promised,
                     !.continued = @ \o Drop(frame.payload, 4)]
        IN  IF HasFlag(frame.flags, CNO_FLAG_END_HEADERS)
            THEN Call("cno_frame_handle_end_headers", <<c2, promised, frame>>)
            ELSE c2

cno_frame_handle_continuation(c, has, frame) ==
   IF ~has \/ c.continued_stream = 0
   THEN Call("cno_frame_write_error", <<c, CNO_RST_PROTOCOL_ERROR>>)
   ELSE IF Len(frame.payload) + Len(c.continued)
              > (CNO_MAX_CONTINUATIONS + 1) * c.settings[CNO_LOCAL][max_frame_size]
   THEN Call("cno_frame_write_error", <<c, CNO_RST_ENHANCE_YOUR_CALM>>)
   ELSE LET c1 == [c EXCEPT !.continued = @ \o frame.payload]
            f1 == [frame EXCEPT !.flags = SetFlag(@, c.continued_flags)]
        IN  IF HasFlag(f1.flags, CNO_FLAG_END_HEADERS)
            THEN Call("cno_frame_handle_end_headers", <<c1, frame.stream, f1>>)
            ELSE c1

(* cno_frame_handle_invalid_stream with a loop that starts at `i = 1` *)
cno_frame_handle_invalid_stream_from1(c, frame) ==
   IF /\ frame.stream # 0
      /\ ULe(frame.stream, c.last_stream[cno_stream_is_local(c, frame.stream)])
      /\ \E i \in 1..(CNO_STREAM_RESET_HISTORY - 1) : c.recently_reset[i] = frame.stream
   THEN c
   ELSE Call("cno_frame_write_error", <<c, CNO_RST_PROTOCOL_ERROR>>)

cno_frame_handle_invalid_stream(c, frame) ==
   IF /\ frame.stream # 0
      /\ ULe(frame.stream, c.last_stream[cno_stream_is_local(c, frame.stream)])
      /\ \E i \in 0..(CNO_STREAM_RESET_HISTORY - 1) : c.recently_reset[i] = frame.stream
   THEN c
   ELSE Call("cno_frame_write_error", <<c, CNO_RST_PROTOCOL_ERROR>>)

(* cno_frame_handle_data without the test of CNO_ACCEPT_DATA *)
cno_frame_handle_data_noaccept(c, has, frame0) ==
   LET length == Len(frame0.payload)
       p == cno_frame_handle_padding(c, frame0)
       frame == p.frame
       c1 == IF length # 0
             THEN Call("cno_frame_write", <<c, Frame(CNO_FRAME_WINDOW_UPDATE, 0, 0, Pack(length, 4))>>)
             ELSE c
   IN
   IF ~Ok(p.c) THEN p.c
   ELSE IF ~Ok(c1) THEN c1
   ELSE IF ~has THEN cno_frame_handle_invalid_stream(c1, frame)
   ELSE
   LET c2 == CNO_FIRE(c1, Event("on_message_data", frame.stream, frame.payload,
                                NoMsg, NoFrame, 0))
   IN
   IF ~Ok(c2) THEN c2
   ELSE IF HasFlag(frame.flags, CNO_FLAG_END_STREAM)
   THEN Call("cno_frame_handle_end_stream", <<c2, frame.stream>>)
   ELSE IF length = 0 \/ "MANUAL_FLOW_CONTROL" \in c.flags
   THEN c2
   ELSE Call("cno_frame_write", <<c2, Frame(CNO_FRAME_WINDOW_UPDATE, 0, frame.stream,
                                  Pack(length, 4))>>)

(* cno_frame_handle_data with `length` read after the padding was removed *)
cno_frame_handle_data_stripped(c, has, frame0) ==
   LET p == cno_frame_handle_padding(c, frame0)
       frame == p.frame
       length == Len(frame.payload)
       c1 == IF length # 0
             THEN Call("cno_frame_write", <<c, Frame(CNO_FRAME_WINDOW_UPDATE, 0, 0, Pack(length, 4))>>)
             ELSE c
   IN
   IF ~Ok(p.c) THEN p.c
   ELSE IF ~Ok(c1) THEN c1
   ELSE IF ~has THEN cno_frame_handle_invalid_stream(c1, frame)
   ELSE IF "DATA" \notin Stream(c1, frame.stream).accept
   THEN Call("cno_frame_write_rst_stream", <<c1, frame.stream, CNO_RST_STREAM_CLOSED>>)
   ELSE
   LET c2 == CNO_FIRE(c1, Event("on_message_data", frame.stream, frame.payload,
                                NoMsg, NoFrame, 0))
   IN
   IF ~Ok(c2) THEN c2
   ELSE IF HasFlag(frame.flags, CNO_FLAG_END_STREAM)
   THEN Call("cno_frame_handle_end_stream", <<c2, frame.stream>>)
   ELSE IF length = 0 \/ "MANUAL_FLOW_CONTROL" \in c.flags
   THEN c2
   ELSE Call("cno_frame_write", <<c2, Frame(CNO_FRAME_WINDOW_UPDATE, 0, frame.stream,
                                  Pack(length, 4))>>)

cno_frame_handle_data(c, has, frame0) ==
   LET length == Len(frame0.payload)
       p == cno_frame_handle_padding(c, frame0)
       frame == p.frame
       c1 == IF length # 0
             THEN Call("cno_frame_write", <<c, Frame(CNO_FRAME_WINDOW_UPDATE, 0, 0, Pack(length, 4))>>)
             ELSE c
   IN
   IF ~Ok(p.c) THEN p.c
   ELSE IF ~Ok(c1) THEN c1
   ELSE IF ~has THEN cno_frame_handle_invalid_stream(c1, frame)
   ELSE IF "DATA" \notin Stream(c1, frame.stream).accept
   THEN Call("cno_frame_write_rst_stream", <<c1, frame.stream, CNO_RST_STREAM_CLOSED>>)
   ELSE
   LET c2 == CNO_FIRE(c1, Event("on_message_data", frame.stream, frame.payload,
                                NoMsg, NoFrame, 0))
   IN
   IF ~Ok(c2) THEN c2
   ELSE IF HasFlag(frame.flags, CNO_FLAG_END_STREAM)
   THEN Call("cno_frame_handle_end_stream", <<c2, frame.stream>>)
   ELSE IF length = 0 \/ "MANUAL_FLOW_CONTROL" \in c.flags
   THEN c2
   ELSE Call("cno_frame_write", <<c2, Frame(CNO_FRAME_WINDOW_UPDATE, 0, frame.stream,
                                  Pack(length, 4))>>)

cno_frame_handle_ping(c, has, frame) ==
   IF frame.stream # 0
   THEN Call("cno_frame_write_error", <<c, CNO_RST_PROTOCOL_ERROR>>)
   ELSE IF Len(frame.payload) # 8
   THEN Call("cno_frame_write_error", <<c, CNO_RST_FRAME_SIZE_ERROR>>)
   ELSE IF HasFlag(frame.flags, CNO_FLAG_ACK)
   THEN CNO_FIRE(c, Event("on_pong", 0, frame.payload, NoMsg, NoFrame, 0))
   ELSE Call("cno_frame_write", <<c, Frame(CNO_FRAME_PING, CNO_FLAG_ACK, 0, frame.payload)>>)

cno_frame_handle_goaway(c, has, frame) ==
   IF frame.stream # 0
   THEN Call("cno_frame_write_error", <<c, CNO_RST_PROTOCOL_ERROR>>)
   ELSE IF Len(frame.payload) < 8
   THEN Call("cno_frame_write_error", <<c, CNO_RST_FRAME_SIZE_ERROR>>)
   ELSE IF read4(Drop(frame.payload, 4)) # CNO_RST_NO_ERROR
   THEN CNO_ERROR(c, "TRANSPORT")
   ELSE CNO_ERROR(c, "DISCONNECT")

cno_frame_handle_rst_stream(c, has, frame) ==
   IF ~has THEN cno_frame_handle_invalid_stream(c, frame)
   ELSE IF Len(frame.payload) # 4
   THEN Call("cno_frame_write_error", <<c, CNO_RST_FRAME_SIZE_ERROR>>)
   ELSE cno_stream_rst(c, frame.stream)

cno_frame_handle_priority(c, has, frame) ==
   IF frame.stream = 0
   THEN Call("cno_frame_write_error", <<c, CNO_RST_PROTOCOL_ERROR>>)
   ELSE IF Len(frame.payload) # 5
   THEN Call("cno_frame_write_error", <<c, CNO_RST_FRAME_SIZE_ERROR>>)
   ELSE cno_frame_handle_priority_prefix(c, has, frame)

(* the loop over the 6-byte entries: every known setting is stored at once *)
RECURSIVE SettingsApply(_, _)
SettingsApply(cfg, payload) ==
   IF payload = <<>> THEN cfg
   ELSE LET setting == read2(payload)
            value   == read4(Drop(payload, 2))
        IN  SettingsApply(
               IF setting # 0 /\ setting < CNO_SETTINGS_UNDEFINED
               THEN [cfg EXCEPT ![setting] = value] ELSE cfg,
               Drop(payload, 6))

(* cno_frame_handle_settings that acknowledges an acknowledgement as well *)
cno_frame_handle_settings_ackall(c, has, frame) ==
   IF frame.stream # 0
   THEN Call("cno_frame_write_error", <<c, CNO_RST_PROTOCOL_ERROR>>)
   ELSE IF HasFlag(frame.flags, CNO_FLAG_ACK)
   THEN IF Len(frame.payload) # 0
        THEN Call("cno_frame_write_error", <<c, CNO_RST_FRAME_SIZE_ERROR>>)
        ELSE Call("cno_frame_write", <<c, Frame(CNO_FRAME_SETTINGS, CNO_FLAG_ACK, 0, <<>>)>>)
   ELSE IF Len(frame.payload) % 6 # 0
   THEN Call("cno_frame_write_error", <<c, CNO_RST_FRAME_SIZE_ERROR>>)
   ELSE
   LET cfg == SettingsApply(c.settings[CNO_REMOTE], frame.payload)
       c1  == [c EXCEPT !.settings[CNO_REMOTE] = cfg]
   IN
   IF ULt(1, cfg[enable_push])
   THEN Call("cno_frame_write_error", <<c1, CNO_RST_PROTOCOL_ERROR>>)
   ELSE IF ULt(INT32_MAX, cfg[initial_window_size])
   THEN Call("cno_frame_write_error", <<c1, CNO_RST_FLOW_CONTROL_ERROR>>)
   ELSE IF ULt(cfg[max_frame_size], 16384) \/ ULt(16777215, cfg[max_frame_size])
   THEN Call("cno_frame_write_error", <<c1, CNO_RST_PROTOCOL_ERROR>>)
   ELSE
   LET c2 == [c1 EXCEPT !.encoder =
                cno_hpack_setlimit([@ EXCEPT !.limit_upper = cfg[header_table_size]],
                                   cfg[header_table_size])]
       c3 == Call("cno_frame_write", <<c2, Frame(CNO_FRAME_SETTINGS, CNO_FLAG_ACK, 0, <<>>)>>)
   IN
   IF ~Ok(c3) THEN c3
   ELSE CNO_FIRE(c3, Event("on_settings", 0, <<>>, NoMsg, NoFrame, 0))

cno_frame_handle_settings(c, has, frame) ==
   IF frame.stream # 0
   THEN Call("cno_frame_write_error", <<c, CNO_RST_PROTOCOL_ERROR>>)
   ELSE IF HasFlag(frame.flags, CNO_FLAG_ACK)
   THEN IF Len(frame.payload) # 0
        THEN Call("cno_frame_write_error", <<c, CNO_RST_FRAME_SIZE_ERROR>>)
        ELSE c
   ELSE IF Len(frame.payload) % 6 # 0
   THEN Call("cno_frame_write_error", <<c, CNO_RST_FRAME_SIZE_ERROR>>)
   ELSE
   LET cfg == SettingsApply(c.settings[CNO_REMOTE], frame.payload)
       c1  == [c EXCEPT !.settings[CNO_REMOTE] = cfg]
   IN
   IF ULt(1, cfg[enable_push])
   THEN Call("cno_frame_write_error", <<c1, CNO_RST_PROTOCOL_ERROR>>)
   ELSE IF ULt(INT32_MAX, cfg[initial_window_size])
   THEN Call("cno_frame_write_error", <<c1, CNO_RST_FLOW_CONTROL_ERROR>>)
   ELSE IF ULt(cfg[max_frame_size], 16384) \/ ULt(16777215, cfg[max_frame_size])
   THEN Call("cno_frame_write_error", <<c1, CNO_RST_PROTOCOL_ERROR>>)
   ELSE
   LET c2 == [c1 EXCEPT !.encoder =
                cno_hpack_setlimit([@ EXCEPT !.limit_upper = cfg[header_table_size]],
                                   cfg[header_table_size])]
       c3 == Call("cno_frame_write", <<c2, Frame(CNO_FRAME_SETTINGS, CNO_FLAG_ACK, 0, <<>>)>>)
   IN
   IF ~Ok(c3) THEN c3
   ELSE CNO_FIRE(c3, Event("on_settings", 0, <<>>, NoMsg, NoFrame, 0))

(* cno_frame_handle_window_update without the two tests                    *)
(* `window_send > 0x7fffffffL - (int32_t) increment`: the sum wraps        *)
cno_frame_handle_window_update_nocheck(c, has, frame) ==
   IF Len(frame.payload) # 4
   THEN Call("cno_frame_write_error", <<c, CNO_RST_FRAME_SIZE_ERROR>>)
   ELSE
   LET increment == read4(frame.payload)
       flow == Event("on_flow_increase", frame.stream, <<>>, NoMsg, NoFrame, 0)
       Sum(w) == IF w > INT32_MAX - increment
                 THEN ((w - INT32_MAX) - 1) + ((increment - INT32_MAX) - 1)
                 ELSE w + increment
   IN
   IF increment = 0 \/ ULt(INT32_MAX, increment)
   THEN Call("cno_frame_write_error", <<c, CNO_RST_PROTOCOL_ERROR>>)
   ELSE IF frame.stream = 0
   THEN CNO_FIRE([c EXCEPT !.window_send = Sum(@)], flow)
   ELSE IF ~has
   THEN cno_frame_handle_invalid_stream(c, frame)
   ELSE CNO_FIRE(
           [c EXCEPT !.streams[Bucket(frame.stream)]
                              [StreamIndex(c, frame.stream)].window_send = Sum(@)],
           flow)

cno_frame_handle_window_update(c, has, frame) ==
   IF Len(frame.payload) # 4
   THEN Call("cno_frame_write_error", <<c, CNO_RST_FRAME_SIZE_ERROR>>)
   ELSE
   LET increment == read4(frame.payload)
       flow == Event("on_flow_increase", frame.stream, <<>>, NoMsg, NoFrame, 0)
   IN
   IF increment = 0 \/ ULt(INT32_MAX, increment)
   THEN Call("cno_frame_write_error", <<c, CNO_RST_PROTOCOL_ERROR>>)
   ELSE IF frame.stream = 0
   THEN IF c.window_send > INT32_MAX - increment
        THEN Call("cno_frame_write_error", <<c, CNO_RST_FLOW_CONTROL_ERROR>>)
        ELSE CNO_FIRE([c EXCEPT !.window_send = @ + increment], flow)
   ELSE IF ~has
   THEN cno_frame_handle_invalid_stream(c, frame)
   ELSE IF Stream(c, frame.stream).window_send > INT32_MAX - increment
   THEN Call("cno_frame_write_rst_stream", <<c, frame.stream, CNO_RST_FLOW_CONTROL_ERROR>>)
   ELSE CNO_FIRE(
           [c EXCEPT !.streams[Bucket(frame.stream)]
                              [StreamIndex(c, frame.stream)].window_send = @ + increment],
           flow)

(* cno_frame_handle without the test of conn->continued_stream *)
cno_frame_handle_nogate(c, frame) ==
   IF frame.type >= CNO_FRAME_UNKNOWN THEN c
   ELSE
   LET has == cno_stream_find(c, frame.stream)
   IN  CASE frame.type = CNO_FRAME_DATA          -> Call("cno_frame_handle_data", <<c, has, frame>>)
         [] frame.type = CNO_FRAME_HEADERS       -> Call("cno_frame_handle_headers", <<c, has, frame>>)
         [] frame.type = CNO_FRAME_PRIORITY      -> cno_frame_handle_priority(c, has, frame)
         [] frame.type = CNO_FRAME_RST_STREAM    -> Call("cno_frame_handle_rst_stream", <<c, has, frame>>)
         [] frame.type = CNO_FRAME_SETTINGS      -> Call("cno_frame_handle_settings", <<c, has, frame>>)
         [] frame.type = CNO_FRAME_PUSH_PROMISE  -> Call("cno_frame_handle_push_promise", <<c, has, frame>>)
         [] frame.type = CNO_FRAME_PING          -> Call("cno_frame_handle_ping", <<c, has, frame>>)
         [] frame.type = CNO_FRAME_GOAWAY        -> cno_frame_handle_goaway(c, has, frame)
         [] frame.type = CNO_FRAME_WINDOW_UPDATE -> Call("cno_frame_handle_window_update", <<c, has, frame>>)
         [] frame.type = CNO_FRAME_CONTINUATION  -> Call("cno_frame_handle_continuation", <<c, has, frame>>)

cno_frame_handle(c, frame) ==
   IF c.continued_stream # 0
      /\ (frame.type # CNO_FRAME_CONTINUATION \/ frame.stream # c.continued_stream)
   THEN Call("cno_frame_write_error", <<c, CNO_RST_PROTOCOL_ERROR>>)
   ELSE IF frame.type >= CNO_FRAME_UNKNOWN THEN c
   ELSE
   LET has == cno_stream_find(c, frame.stream)
   IN  CASE frame.type = CNO_FRAME_DATA          -> Call("cno_frame_handle_data", <<c, has, frame>>)
         [] frame.type = CNO_FRAME_HEADERS       -> Call("cno_frame_handle_headers", <<c, has, frame>>)
         [] frame.type = CNO_FRAME_PRIORITY      -> cno_frame_handle_priority(c, has, frame)
         [] frame.type = CNO_FRAME_RST_STREAM    -> Call("cno_frame_handle_rst_stream", <<c, has, frame>>)
         [] frame.type = CNO_FRAME_SETTINGS      -> Call("cno_frame_handle_settings", <<c, has, frame>>)
         [] frame.type = CNO_FRAME_PUSH_PROMISE  -> Call("cno_frame_handle_push_promise", <<c, has, frame>>)
         [] frame.type = CNO_FRAME_PING          -> Call("cno_frame_handle_ping", <<c, has, frame>>)
         [] frame.type = CNO_FRAME_GOAWAY        -> cno_frame_handle_goaway(c, has, frame)
         [] frame.type = CNO_FRAME_WINDOW_UPDATE -> Call("cno_frame_handle_window_update", <<c, has, frame>>)
         [] frame.type = CNO_FRAME_CONTINUATION  -> Call("cno_frame_handle_continuation", <<c, has, frame>>)

(* cno_connection_set_config with the settings stored before the frame is  *)
(* written                                                                *)
cno_connection_set_config_stored(c, settings) ==
   IF settings[enable_push] # 0 /\ settings[enable_push] # 1
   THEN CNO_ERROR(c, "ASSERTION")
   ELSE IF ULt(settings[max_frame_size], 16384) \/ ULt(16777215, settings[max_frame_size])
   THEN CNO_ERROR(c, "ASSERTION")
   ELSE
   LET c1 == IF c.state # "INIT" /\ cno_connection_is_http2(c)
             THEN cno_frame_write_settings(c, settings, settings)
             ELSE c
   IN
   IF ~Ok(c1) THEN c1
   ELSE [c1 EXCEPT !.settings[CNO_LOCAL] = settings,
                   !.decoder.limit_upper = settings[header_table_size]]

cno_connection_set_config(c, settings) ==
   IF settings[enable_push] # 0 /\ settings[enable_push] # 1
   THEN CNO_ERROR(c, "ASSERTION")
   ELSE IF ULt(settings[max_frame_size], 16384) \/ ULt(16777215, settings[max_frame_size])
   THEN CNO_ERROR(c, "ASSERTION")
   ELSE
   LET c1 == IF c.state # "INIT" /\ cno_connection_is_http2(c)
             THEN cno_frame_write_settings(c, c.settings[CNO_LOCAL], settings)
             ELSE c
   IN
   IF ~Ok(c1) THEN c1
   ELSE [c1 EXCEPT !.settings[CNO_LOCAL] = settings,
                   !.decoder.limit_upper = settings[header_table_size]]

cno_connection_upgrade(c) ==
   LET c1 == IF c.client = 1 THEN on_write(c, CNO_PREFACE, Len(CNO_PREFACE)) ELSE c
   IN  IF ~Ok(c1) THEN c1
       ELSE cno_frame_write_settings(c1, CNO_SETTINGS_STANDARD, c1.settings[CNO_LOCAL])

(***************************************************************************)
(* Write-side API.                                                         *)
(***************************************************************************)
RECURSIVE DecDigits(_)
DecDigits(n) ==
   IF n < 10 THEN <<48 + n>> ELSE DecDigits(n \div 10) \o <<48 + (n % 10)>>

RECURSIVE HexDigits(_)
HexDigits(n) ==
   LET d == n % 16
       ch == IF d < 10 THEN 48 + d ELSE 55 + d
   IN  IF n < 16 THEN <<ch>> ELSE HexDigits(n \div 16) \o <<ch>>

EndsWith(s, t) ==
   Len(s) >= Len(t) /\ SubSeq(s, Len(s) - Len(t) + 1, Len(s)) = t

CNO_MAX_HTTP1_HEADER_SIZE == 2048

cno_connection_next_stream(c) ==
   IF ~cno_connection_is_http2(c) THEN 1
   ELSE LET last == c.last_stream[CNO_LOCAL]
        IN  IF c.client = 1 /\ last = 0 THEN 1 ELSE last + 2

cno_write_reset(c, stream, code) ==
   IF ~cno_connection_is_http2(c)
   THEN IF stream = 0 /\ code = CNO_RST_NO_ERROR THEN c
        ELSE LET c1 == IF cno_stream_find(c, 1) THEN cno_stream_rst(c, 1) ELSE c
             IN  IF ~Ok(c1) THEN c1 ELSE CNO_ERROR(c1, "DISCONNECT")
   ELSE IF stream = 0 THEN cno_frame_write_goaway(c, code)
   ELSE IF cno_stream_find(c, stream)
   THEN Call("cno_frame_write_rst_stream", <<c, stream, code>>)
   ELSE c

(* the PUSH_PROMISE was written: the request is announced to the pusher *)
WritePushSent(c3, child, msg) ==
   IF ~Ok(c3) THEN c3
   ELSE LET c4 == CNO_FIRE(c3, Event("on_message_start", child, <<>>, msg, NoFrame, 0))
        IN  IF ~Ok(c4) THEN c4
            ELSE CNO_FIRE(c4, Event("on_message_end", child, <<>>, NoMsg, NoFrame, 0))

(* e1 and e2 are the encoder's results for the pseudo-headers and the rest *)
WritePushEncoded(c2, stream, child, msg, e1, e2) ==
   WritePushSent(
      Call("cno_frame_write", <<[c2 EXCEPT !.encoder = e2.state],
         Frame(CNO_FRAME_PUSH_PROMISE, CNO_FLAG_END_HEADERS, stream,
               Pack(child, 4) \o e1.out \o e2.out)>>),
      child, msg)

WritePushPseudo(c2, stream, child, msg, e1) ==
   WritePushEncoded(c2, stream, child, msg, e1, Call("cno_hpack_encode", <<e1.state, msg.headers>>))

WritePushChild(c2, stream, child, msg) ==
   WritePushPseudo(c2, stream, child, msg,
      Call("cno_hpack_encode", <<c2.encoder,
         <<Header(STR_P_method, msg.method), Header(STR_P_path, msg.path)>>>>))

(* c1 is the connection after the promised stream was created *)
WritePushStream(c1, stream, child, msg) ==
   IF ~Ok(c1) THEN c1
   ELSE WritePushChild(SetAccept(c1, child, {"WRITE_HEADERS"}), stream, child, msg)

(* cno_write_push without `childobj->accept = CNO_ACCEPT_WRITE_HEADERS` *)
cno_write_push_plain(c, stream, msg) ==
   IF c.state = "UNDEFINED" THEN CNO_ERROR(c, "DISCONNECT")
   ELSE IF c.client = 1 THEN CNO_ERROR(c, "ASSERTION")
   ELSE IF ~cno_connection_is_http2(c) \/ c.settings[CNO_REMOTE][enable_push] = 0
   THEN c
   ELSE IF ~cno_stream_find(c, stream) THEN CNO_ERROR(c, "INVALID_STREAM")
   ELSE IF "WRITE_PUSH" \notin Stream(c, stream).accept THEN c
   ELSE
   LET c1 == Call("cno_stream_new", <<c, cno_connection_next_stream(c), CNO_LOCAL>>)
   IN  IF ~Ok(c1) THEN c1
       ELSE WritePushChild(c1, stream, cno_connection_next_stream(c), msg)

cno_write_push(c, stream, msg) ==
   IF c.state = "UNDEFINED" THEN CNO_ERROR(c, "DISCONNECT")
   ELSE IF c.client = 1 THEN CNO_ERROR(c, "ASSERTION")
   ELSE IF ~cno_connection_is_http2(c) \/ c.settings[CNO_REMOTE][enable_push] = 0
   THEN c
   ELSE IF ~cno_stream_find(c, stream) THEN CNO_ERROR(c, "INVALID_STREAM")
   ELSE IF "WRITE_PUSH" \notin Stream(c, stream).accept THEN c
   ELSE
   WritePushStream(Call("cno_stream_new", <<c, cno_connection_next_stream(c), CNO_LOCAL>>),
                   stream, cno_connection_next_stream(c), msg)

cno_discard_remaining_payload(c, id) ==
   LET accept == Stream(c, id).accept \ CNO_ACCEPT_OUTBOUND
       c1 == SetAccept(c, id, accept)
   IN  IF accept = {} THEN cno_stream_rst_by_local(c1, id)
       ELSE IF c.client = 0 /\ cno_connection_is_http2(c)
       THEN Call("cno_frame_write_rst_stream", <<c1, id, CNO_RST_NO_ERROR>>)
       ELSE c1

(* the header lines of an HTTP/1.x message: returns [c, had_connection_header] *)
RECURSIVE Http1HeaderLines(_, _, _)
Http1HeaderLines(c, headers, had) ==
   IF headers = <<>> \/ ~Ok(c) THEN [c |-> c, had |-> had]
   ELSE
   LET h == Head(headers)
       rest == Tail(headers)
       line(name, value) == name \o STR_COLON_SP \o value \o STR_CRLF
       emit(cc, name, value) ==
          IF Len(line(name, value)) > CNO_MAX_HTTP1_HEADER_SIZE + 3
          THEN CNO_ERROR(cc, "ASSERTION")
          ELSE on_write(cc, line(name, value), Len(line(name, value)))
   IN
   IF h.name = STR_P_authority
   THEN Http1HeaderLines(emit(c, STR_host, h.value), rest, had)
   ELSE IF IsPseudo(h)
   THEN Http1HeaderLines(c, rest, had)
   ELSE IF h.name = STR_connection
   THEN Http1HeaderLines(emit(c, h.name, h.value), rest, TRUE)
   ELSE IF h.name = STR_content_length \/ h.name = STR_upgrade
   THEN Http1HeaderLines(emit([c EXCEPT !.flags = @ \ {"WRITING_CHUNKED"}],
                              h.name, h.value), rest, had)
   ELSE IF h.name = STR_transfer_encoding
   THEN IF h.value = STR_chunked
        THEN Http1HeaderLines(c, rest, had)
        ELSE IF EndsWith(h.value, STR_c_sp_chunked)
        THEN Http1HeaderLines(emit(c, h.name, Take(h.value, Len(h.value) - 9)), rest, had)
        ELSE IF EndsWith(h.value, STR_c_chunked)
        THEN Http1HeaderLines(emit(c, h.name, Take(h.value, Len(h.value) - 8)), rest, had)
        ELSE Http1HeaderLines(emit(c, h.name, h.value), rest, had)
   ELSE Http1HeaderLines(emit(c, h.name, h.value), rest, had)

(* cno_write_message, the branch `if (!cno_connection_is_http2(conn))`:    *)
(* returns [c, is_informational]                                           *)
WriteMessageHttp1StartLine(c, first) ==
   IF Len(first) > CNO_MAX_HTTP1_HEADER_SIZE
   THEN CNO_ERROR(c, "ASSERTION")
   ELSE on_write(c, first, Len(first))

(* after the header lines: transfer-encoding, connection, the empty line *)
WriteMessageHttp1Close(c, had) ==
   IF ~Ok(c) THEN c
   ELSE LET c3 == IF "WRITING_CHUNKED" \in c.flags
                  THEN on_write(c, STR_TE_CHUNKED, 28) ELSE c
        IN  IF ~Ok(c3) THEN c3
            ELSE LET c4 == IF ~had THEN on_write(c3, STR_KEEP_ALIVE, 24) ELSE c3
                 IN  IF ~Ok(c4) THEN c4 ELSE on_write(c4, STR_CRLF, 2)

WriteMessageHttp1Result(c5, msg, is_informational) ==
   IF ~Ok(c5) THEN [c |-> c5, is_informational |-> is_informational]
   ELSE IF msg.code = 101 /\ c5.state = "UNKNOWN_PROTOCOL_UPGRADE"
   THEN [c |-> [c5 EXCEPT !.state = "UNKNOWN_PROTOCOL"], is_informational |-> FALSE]
   ELSE [c |-> c5, is_informational |-> is_informational]

WriteMessageHttp1Lines(l, msg, is_informational) ==
   WriteMessageHttp1Result(WriteMessageHttp1Close(l.c, l.had), msg, is_informational)

WriteMessageHttp1Head(c1, msg, final, is_informational) ==
   IF ~Ok(c1) THEN [c |-> c1, is_informational |-> is_informational]
   ELSE WriteMessageHttp1Lines(
           Http1HeaderLines([c1 EXCEPT !.flags = IF is_informational \/ final
                                                 THEN @ \ {"WRITING_CHUNKED"}
                                                 ELSE @ \cup {"WRITING_CHUNKED"}],
                            msg.headers, FALSE),
           msg, is_informational)

WriteMessageHttp1(c, msg, final, is_informational) ==
   WriteMessageHttp1Head(
      WriteMessageHttp1StartLine(c,
         IF c.client = 1
         THEN msg.method \o <<32>> \o msg.path \o STR_SP_HTTP11
         ELSE STR_HTTP11_SP \o DecDigits(msg.code) \o STR_SP_SOMETHING),
      msg, final, is_informational)

(* the branch for HTTP/2: one HEADERS frame *)
WriteMessageHttp2(c, stream, msg, final) ==
   LET head == IF c.client = 1
               THEN <<Header(STR_P_method, msg.method), Header(STR_P_path, msg.path)>>
               ELSE <<Header(STR_P_status, DecDigits(msg.code))>>
       e1 == Call("cno_hpack_encode", <<c.encoder, head>>)
       e2 == Call("cno_hpack_encode", <<e1.state, msg.headers>>)
   IN  Call("cno_frame_write", <<[c EXCEPT !.encoder = e2.state],
          Frame(CNO_FRAME_HEADERS,
                CNO_FLAG_END_HEADERS + (IF final THEN CNO_FLAG_END_STREAM ELSE 0),
                stream, e1.out \o e2.out)>>)

(* the message was written: w is [c, is_informational] *)
WriteMessageWritten(w, stream, final) ==
   IF ~Ok(w.c) THEN w.c
   ELSE IF final THEN Call("cno_discard_remaining_payload", <<w.c, stream>>)
   ELSE IF ~w.is_informational
   THEN SetAccept(w.c, stream,
           (Stream(w.c, stream).accept \ {"WRITE_HEADERS"}) \cup {"WRITE_DATA"})
   ELSE w.c

(* c1 is the connection after the stream was found or created *)
WriteMessageStream(c, c1, stream, msg, final, is_informational) ==
   IF ~Ok(c1) THEN c1
   ELSE IF c.client = 1 /\ ~cno_connection_is_http2(c1)
           /\ "WRITE_HEADERS" \notin Stream(c1, stream).accept
   THEN CNO_ERROR(c1, "WOULD_BLOCK")
   ELSE WriteMessageWritten(
           IF ~cno_connection_is_http2(c1)
           THEN Call("WriteMessageHttp1", <<c1, msg, final, is_informational>>)
           ELSE [c |-> Call("WriteMessageHttp2", <<c1, stream, msg, final>>),
                 is_informational |-> is_informational],
           stream, final)

(* the new stream of a client *)
WriteMessageNew(n, stream) ==
   IF ~Ok(n) THEN n
   ELSE SetAccept(n, stream, {"HEADERS", "PUSH", "WRITE_HEADERS"})

(* cno_write_message with the check of `is_informational && final` made    *)
(* after the stream was looked up or created                               *)
cno_write_message_late(c, stream, msg, final) ==
   LET is_informational == 100 <= msg.code /\ msg.code < 200
       has == cno_stream_find(c, stream)
   IN
   IF c.state = "UNDEFINED" THEN CNO_ERROR(c, "DISCONNECT")
   ELSE IF c.client = 0 /\ (~has \/ "WRITE_HEADERS" \notin Stream(c, stream).accept)
   THEN CNO_ERROR(c, "INVALID_STREAM")
   ELSE IF is_informational /\ final
   THEN CNO_ERROR(IF c.client = 1 /\ ~has
                  THEN WriteMessageNew(Call("cno_stream_new", <<c, stream, CNO_LOCAL>>), stream)
                  ELSE c, "ASSERTION")
   ELSE WriteMessageStream(c,
           IF c.client = 1 /\ ~has
           THEN WriteMessageNew(Call("cno_stream_new", <<c, stream, CNO_LOCAL>>), stream)
           ELSE c,
           stream, msg, final, is_informational)


cno_write_message(c, stream, msg, final) ==
   LET is_informational == 100 <= msg.code /\ msg.code < 200
       has == cno_stream_find(c, stream)
   IN
   IF c.state = "UNDEFINED" THEN CNO_ERROR(c, "DISCONNECT")
   ELSE IF is_informational /\ final THEN CNO_ERROR(c, "ASSERTION")
   ELSE IF c.client = 0 /\ (~has \/ "WRITE_HEADERS" \notin Stream(c, stream).accept)
   THEN CNO_ERROR(c, "INVALID_STREAM")
   ELSE WriteMessageStream(c,
           IF c.client = 1 /\ ~has
           THEN WriteMessageNew(Call("cno_stream_new", <<c, stream, CNO_LOCAL>>), stream)
           ELSE c,
           stream, msg, final, is_informational)

(* `if (cond && CNO_FIRE(conn, on_write, ...)) return CNO_ERROR_UP();` after *)
(* the writes before it                                                    *)
WriteIfOk(c, cond, data, length) ==
   IF cond /\ Ok(c) THEN on_write(c, data, length) ELSE c

DiscardIfOk(c, cond, stream) ==
   IF cond /\ Ok(c) THEN Call("cno_discard_remaining_payload", <<c, stream>>) ELSE c

(* `return length;` unless a step before it failed *)
RetIfOk(c, length) ==
   IF ~Ok(c) THEN c ELSE [c EXCEPT !.ret = length]

(* cno_write_data, the branch `if (!cno_connection_is_http2(conn))` *)
WriteDataHttp1(c, stream, length, final, chunked) ==
   RetIfOk(
      DiscardIfOk(
         WriteIfOk(
            WriteIfOk(
               WriteIfOk(
                  WriteIfOk(c, length # 0 /\ chunked, HexDigits(length) \o STR_CRLF,
                            Len(HexDigits(length)) + 2),
                  length # 0, <<>>, length),
               length # 0 /\ chunked, STR_CRLF, 2),
            final /\ chunked, STR_LAST_CHUNK, 5),
         final, stream),
      length)

(* the DATA frame was written: c1 is the connection after it *)
WriteDataHttp2Sent(c, c1, stream, length, final) ==
   IF ~Ok(c1) THEN c1
   ELSE RetIfOk(
           DiscardIfOk([c1 EXCEPT !.window_send = @ - length,
                                  !.streams[Bucket(stream)]
                                           [StreamIndex(c, stream)].window_send = @ - length],
                       final, stream),
           length)

(* cno_write_data over HTTP/2, length and final clamped to the windows *)
WriteDataHttp2(c, stream, length, final) ==
   IF length = 0 /\ ~final THEN [c EXCEPT !.ret = 0]
   ELSE WriteDataHttp2Sent(c,
           Call("cno_frame_write", <<c, Blob(CNO_FRAME_DATA,
                                   IF final THEN CNO_FLAG_END_STREAM ELSE 0,
                                   stream, length)>>),
           stream, length, final)

(* cno_write_data without `final = 0` where the length is clamped *)
cno_write_data_keepfinal(c, stream, length, final) ==
   IF c.state = "UNDEFINED" THEN CNO_ERROR(c, "DISCONNECT")
   ELSE IF ~cno_stream_find(c, stream) THEN CNO_ERROR(c, "INVALID_STREAM")
   ELSE IF "WRITE_DATA" \notin Stream(c, stream).accept
   THEN CNO_ERROR(c, "INVALID_STREAM")
   ELSE IF c.state = "UNKNOWN_PROTOCOL"
   THEN LET c1 == on_write(c, <<>>, length)
        IN  IF ~Ok(c1) THEN c1
            ELSE IF final
            THEN LET accept == Stream(c1, stream).accept \ {"WRITE_DATA"}
                     c2 == SetAccept(c1, stream, accept)
                     c3 == IF accept = {} THEN cno_stream_rst(c2, stream) ELSE c2
                 IN  IF ~Ok(c3) THEN c3 ELSE CNO_ERROR(c3, "DISCONNECT")
            ELSE [c1 EXCEPT !.ret = length]
   ELSE IF ~cno_connection_is_http2(c)
   THEN WriteDataHttp1(c, stream, length, final, "WRITING_CHUNKED" \in c.flags)
   ELSE IF c.window_send < 0 \/ Stream(c, stream).window_send < 0
   THEN [c EXCEPT !.ret = 0]
   ELSE
   LET l1 == IF length > c.window_send THEN c.window_send ELSE length
   IN  WriteDataHttp2(c, stream,
          IF l1 > Stream(c, stream).window_send
          THEN Stream(c, stream).window_send ELSE l1,
          final)

(* data is opaque: only its length matters to the engine *)
cno_write_data(c, stream, length, final) ==
   IF c.state = "UNDEFINED" THEN CNO_ERROR(c, "DISCONNECT")
   ELSE IF ~cno_stream_find(c, stream) THEN CNO_ERROR(c, "INVALID_STREAM")
   ELSE IF "WRITE_DATA" \notin Stream(c, stream).accept
   THEN CNO_ERROR(c, "INVALID_STREAM")
   ELSE IF c.state = "UNKNOWN_PROTOCOL"
   THEN LET c1 == on_write(c, <<>>, length)
        IN  IF ~Ok(c1) THEN c1
            ELSE IF final
            THEN LET accept == Stream(c1, stream).accept \ {"WRITE_DATA"}
                     c2 == SetAccept(c1, stream, accept)
                     c3 == IF accept = {} THEN cno_stream_rst(c2, stream) ELSE c2
                 IN  IF ~Ok(c3) THEN c3 ELSE CNO_ERROR(c3, "DISCONNECT")
            ELSE [c1 EXCEPT !.ret = length]
   ELSE IF ~cno_connection_is_http2(c)
   THEN WriteDataHttp1(c, stream, length, final, "WRITING_CHUNKED" \in c.flags)
   ELSE IF c.window_send < 0 \/ Stream(c, stream).window_send < 0
   THEN [c EXCEPT !.ret = 0]
   ELSE
   LET l1 == IF length > c.window_send THEN c.window_send ELSE length
       f1 == IF length > c.window_send THEN FALSE ELSE final
   IN  WriteDataHttp2(c, stream,
          IF l1 > Stream(c, stream).window_send
          THEN Stream(c, stream).window_send ELSE l1,
          IF l1 > Stream(c, stream).window_send THEN FALSE ELSE f1)

cno_write_ping(c, data) ==
   IF ~cno_connection_is_http2(c) THEN CNO_ERROR(c, "ASSERTION")
   ELSE Call("cno_frame_write", <<c, Frame(CNO_FRAME_PING, 0, 0, data)>>)

cno_increase_flow_window(c, stream, bytes) ==
   IF bytes = 0 \/ stream = 0 \/ ~cno_connection_is_http2(c) \/ ~cno_stream_find(c, stream)
   THEN c
   ELSE Call("cno_frame_write", <<c, Frame(CNO_FRAME_WINDOW_UPDATE, 0, stream, Pack(bytes, 4))>>)

(***************************************************************************)
(* The HTTP/1.x head parser (picohttpparser) is an external collaborator.  *)
(* On the wire of the model a message head is the pair <<H1_HEAD + k,      *)
(* H1_HEAD_END>>, where k selects one of the heads of H1Heads; the parser  *)
(* answers -2 on an incomplete head, -1 on anything that is not a head of  *)
(* the kind this side reads, and otherwise the length it consumed.         *)
(***************************************************************************)
H1_HEAD == 1000
H1_HEAD_END == 999

Lower(ch) ==
   IF 65 <= ch /\ ch <= 90 THEN ch + 32 ELSE ch

ToLower(s) ==
   [i \in 1..Len(s) |-> Lower(s[i])]

H1Request(method, path, minor, headers) ==
   [kind |-> "request", code |-> 0, method |-> method, path |-> path,
    minor |-> minor, headers |-> headers]

H1Response(code, minor, headers) ==
   [kind |-> "response", code |-> code, method |-> <<>>, path |-> <<>>,
    minor |-> minor, headers |-> headers]

STR_GET == <<71, 69, 84>>
STR_SLASH == <<47>>
STR_foo == <<102, 111, 111>>
STR_Host == <<72, 111, 115, 116>>
STR_x == <<120>>

(* decimal numbers around the width of http1_remaining: 2147483648,        *)
(* 4294967295, 4294967296 and 4294967299                                   *)
DEC_2_31 == <<50, 49, 52, 55, 52, 56, 51, 54, 52, 56>>
DEC_2_32_LESS_1 == <<52, 50, 57, 52, 57, 54, 55, 50, 57, 53>>
DEC_2_32 == <<52, 50, 57, 52, 57, 54, 55, 50, 57, 54>>
DEC_2_32_PLUS_3 == <<52, 50, 57, 52, 57, 54, 55, 50, 57, 57>>

H1Heads ==
   << H1Request(STR_GET, STR_SLASH, 1, <<Header(STR_Host, STR_x)>>),
      H1Request(STR_GET, STR_SLASH, 1, <<Header(STR_content_length, <<50>>)>>),
      H1Request(STR_GET, STR_SLASH, 1, <<Header(STR_transfer_encoding, STR_chunked)>>),
      H1Request(STR_GET, STR_SLASH, 1, <<Header(STR_upgrade, STR_h2c)>>),
      H1Request(STR_GET, STR_SLASH, 1, <<Header(STR_upgrade, STR_foo)>>),
      H1Response(200, 1, <<Header(STR_content_length, <<50>>)>>),
      H1Response(200, 1, <<>>),
      H1Response(101, 1, <<Header(STR_upgrade, STR_foo)>>),
      H1Request(STR_GET, STR_SLASH, 2, <<>>),
      H1Request(STR_GET, STR_SLASH, 1, <<Header(STR_content_length, <<48>>)>>),
      H1Request(STR_GET, STR_SLASH, 1, <<Header(STR_content_length, <<51>>)>>),
      H1Request(STR_GET, STR_SLASH, 1, <<Header(STR_content_length, DEC_2_31)>>),
      H1Request(STR_GET, STR_SLASH, 1, <<Header(STR_content_length, DEC_2_32_LESS_1)>>),
      H1Request(STR_GET, STR_SLASH, 1, <<Header(STR_content_length, DEC_2_32)>>),
      H1Request(STR_GET, STR_SLASH, 1, <<Header(STR_content_length, DEC_2_32_PLUS_3)>>),
      H1Response(200, 1, <<Header(STR_content_length, <<51>>)>>),
      H1Response(200, 1, <<Header(STR_content_length, DEC_2_32_LESS_1)>>),
      H1Response(200, 1, <<Header(STR_content_length, DEC_2_32_PLUS_3)>>) >>

(* returns [ok, head] *)
phr_parse(c, buffer) ==
   LET k == buffer[1] - H1_HEAD
       want == IF c.client = 1 THEN "response" ELSE "request"
   IN  IF k < 1 \/ k > Len(H1Heads) THEN [ok |-> -1, head |-> H1Heads[1]]
       ELSE IF H1Heads[k].kind # want THEN [ok |-> -1, head |-> H1Heads[1]]
       ELSE IF Len(buffer) < 2 THEN [ok |-> -2, head |-> H1Heads[1]]
       ELSE IF buffer[2] # H1_HEAD_END THEN [ok |-> -1, head |-> H1Heads[1]]
       ELSE [ok |-> 2, head |-> H1Heads[k]]

(* !strncmp(buffer.data, CNO_PREFACE.data, buffer.size): the comparison    *)
(* runs over buffer.size characters and stops early at the terminating     *)
(* NUL of CNO_PREFACE, which the 25th byte of the buffer must then equal.  *)
PrefaceStrncmpEq(buffer) ==
   /\ \A i \in 1..Min(Len(buffer), Len(CNO_PREFACE)) : buffer[i] = CNO_PREFACE[i]
   /\ (Len(buffer) > Len(CNO_PREFACE) => buffer[Len(CNO_PREFACE) + 1] = 0)

RECURSIVE StripCrlf(_)
StripCrlf(buf) ==
   IF buf # <<>> /\ (Head(buf) = 13 \/ Head(buf) = 10) THEN StripCrlf(Tail(buf)) ELSE buf

(* the digits of a content-length fold into http1_remaining one by one;   *)
(* returns [bad, value], value being what the register holds at the end   *)
RECURSIVE ContentLength(_, _)
ContentLength(v, acc) ==
   IF v = <<>> THEN [bad |-> FALSE, value |-> acc]
   ELSE IF Head(v) < 48 \/ Head(v) > 57 THEN [bad |-> TRUE, value |-> acc]
   ELSE ContentLength(Tail(v), UMul10Add(acc, Head(v) - 48))

(***************************************************************************)
(* cno_connection_proceed.  Each case of the switch returns [c, again]:    *)
(* again is TRUE after `break` (the loop runs once more) and FALSE after   *)
(* `return`.                                                               *)
(***************************************************************************)
Return(c) ==
   [c |-> c, again |-> FALSE]

Break(c) ==
   [c |-> c, again |-> TRUE]

(* `if (f(...)) return CNO_ERROR_UP(); break;` *)
BreakIfOk(c) ==
   IF ~Ok(c) THEN Return(c) ELSE Break(c)

(* the loop over the parsed headers; returns [c, headers] *)
Http1HeaderLoop(c, code, hs, out) ==
   IF hs = <<>> \/ ~Ok(c) THEN [c |-> c, headers |-> out]
   ELSE
   LET h    == Header(ToLower(Head(hs).name), Head(hs).value)
       rest == Tail(hs)
       next(cc, hh) == Call("Http1HeaderLoop", <<cc, code, rest, Append(out, hh)>>)
   IN
   IF h.name = STR_http2_settings THEN next(c, h)
   ELSE IF h.name = STR_upgrade
   THEN IF c.state # "HTTP1_READY" THEN next(c, h)
        ELSE IF h.value # STR_h2c
        THEN IF c.client = 1
             THEN next(IF code = 101 THEN [c EXCEPT !.state = "UNKNOWN_PROTOCOL"] ELSE c, h)
             ELSE next(IF c.on_upgrade
                       THEN [c EXCEPT !.state = "UNKNOWN_PROTOCOL_UPGRADE"] ELSE c, h)
        ELSE IF c.client = 1 \/ "DISALLOW_H2_UPGRADE" \in c.flags THEN next(c, h)
        ELSE LET upgrade_msg == [code |-> 101, method |-> <<>>, path |-> <<>>,
                                 headers |-> <<Header(STR_connection, STR_upgrade),
                                               Header(STR_upgrade, STR_h2c)>>]
                 c1 == Call("cno_write_message", <<c, 1, upgrade_msg, TRUE>>)
                 c2 == Call("cno_connection_upgrade", <<c1>>)
             IN  IF ~Ok(c1) THEN [c |-> c1, headers |-> out]
                 ELSE IF ~Ok(c2) THEN [c |-> c2, headers |-> out]
                 ELSE next([c2 EXCEPT !.state = "HTTP1_READING_UPGRADE"], h)
   ELSE IF c.client = 1 /\ ((100 <= code /\ code < 200) \/ code = 204 \/ code = 304)
   THEN next(c, h)
   ELSE IF h.name = STR_content_length
   THEN IF c.http1_remaining # 0
        THEN [c |-> CNO_ERROR(c, "TRANSPORT"), headers |-> out]
        ELSE LET n == ContentLength(h.value, c.http1_remaining)
                 c1 == [c EXCEPT !.http1_remaining = n.value]
             IN  IF n.bad THEN [c |-> CNO_ERROR(c1, "TRANSPORT"), headers |-> out]
                 ELSE next(c1, h)
   ELSE IF h.name = STR_transfer_encoding
   THEN next(IF h.value # STR_identity
             THEN [c EXCEPT !.http1_remaining = UINT32_MAX] ELSE c, h)
   ELSE IF h.name = STR_host
   THEN next(c, Header(STR_P_authority, h.value))
   ELSE next(c, h)

(* the message is complete: `l` is what the header loop left *)
ProceedHttp1ReadyMessage(c, p, l) ==
   IF ~Ok(l.c) THEN Return(l.c)
   ELSE
   LET msg == [code |-> p.head.code, method |-> p.head.method, path |-> p.head.path,
               headers |-> (IF c.client = 0
                            THEN <<Header(STR_P_scheme, STR_unknown)>> ELSE <<>>)
                           \o l.headers]
       acc == ((Stream(l.c, 1).accept \ {"HEADERS"}) \cup {"DATA"})
              \cup (IF c.client = 0 THEN {"WRITE_HEADERS"} ELSE {})
       c3 == [SetAccept(l.c, 1, acc) EXCEPT
                !.state = IF @ = "HTTP1_READY" THEN "HTTP1_READING" ELSE @,
                !.buffer = Drop(@, p.ok)]
   IN  BreakIfOk(CNO_FIRE(c3, Event("on_message_start", 1, <<>>, msg, NoFrame, 0)))

(* `p` is what the parser made of the buffer of c1 *)
ProceedHttp1ReadyParsed(c, c1, p) ==
   IF p.ok = -2
   THEN IF Len(c1.buffer) > CNO_MAX_CONTINUATIONS * c1.settings[CNO_LOCAL][max_frame_size]
        THEN Return(CNO_ERROR(c1, "TRANSPORT"))
        ELSE Return(c1)
   ELSE IF p.ok = -1 THEN Return(CNO_ERROR(c1, "TRANSPORT"))
   ELSE IF p.head.minor # 0 /\ p.head.minor # 1 THEN Return(CNO_ERROR(c1, "TRANSPORT"))
   ELSE ProceedHttp1ReadyMessage(c, p,
           Call("Http1HeaderLoop", <<[c1 EXCEPT !.http1_remaining = 0], p.head.code,
                           p.head.headers, <<>>>>))

(* c1 is the connection after stream 1 was found or created *)
ProceedHttp1ReadyStream(c, c1) ==
   IF ~Ok(c1) THEN Return(c1)
   ELSE IF c.client = 0 /\ "HEADERS" \notin Stream(c1, 1).accept
   THEN Return(CNO_ERROR(c1, "WOULD_BLOCK"))
   ELSE IF c.client = 0 /\ "DISALLOW_H2_PRIOR_KNOWLEDGE" \notin c.flags
           /\ PrefaceStrncmpEq(c1.buffer)
   THEN IF Len(c1.buffer) < Len(CNO_PREFACE) THEN Return(c1)
        ELSE BreakIfOk(cno_stream_rst(
                          [c1 EXCEPT !.state = "INIT",
                                     !.last_stream = (CNO_REMOTE :> 0 @@ CNO_LOCAL :> 0)],
                          1))
   ELSE ProceedHttp1ReadyParsed(c, c1, phr_parse(c1, c1.buffer))

(* the new stream of a server, made acceptable for HEADERS *)
ProceedHttp1ReadyNew(n) ==
   IF ~Ok(n) THEN n ELSE SetAccept(n, 1, {"HEADERS"})

(* c is the connection after the leading CR and LF were skipped *)
ProceedHttp1ReadyStripped(c, has) ==
   IF c.buffer = <<>> THEN Return(c)
   ELSE IF c.client = 1 /\ (~has \/ "HEADERS" \notin Stream(c, 1).accept)
   THEN Return(CNO_ERROR(c, "TRANSPORT"))
   ELSE ProceedHttp1ReadyStream(c,
           IF c.client = 0 /\ ~has
           THEN ProceedHttp1ReadyNew(Call("cno_stream_new", <<c, 1, CNO_REMOTE>>))
           ELSE c)

ProceedHttp1ReadySkipped(c) ==
   ProceedHttp1ReadyStripped(c, cno_stream_find(c, 1))

ProceedHttp1Ready(c0) ==
   ProceedHttp1ReadySkipped([c0 EXCEPT !.buffer = StripCrlf(@)])

IsHexDigit(ch) ==
   (48 <= ch /\ ch <= 57) \/ (97 <= ch /\ ch <= 102) \/ (65 <= ch /\ ch <= 70)

HexValue(ch) ==
   IF ch <= 57 THEN ch - 48 ELSE IF ch >= 97 THEN ch - 87 ELSE ch - 55

(* strtoul(buffer, &end_of_length, 16) on a buffer that starts with a      *)
(* digit or a line end: returns [length, end], end the number of digits    *)
RECURSIVE Strtoul16(_, _, _)
Strtoul16(buf, acc, n) ==
   IF buf # <<>> /\ IsHexDigit(Head(buf))
   THEN Strtoul16(Tail(buf), acc * 16 + HexValue(Head(buf)), n + 1)
   ELSE [length |-> acc, end |-> n]

(* memchr(buffer, '\n', size): the offset just past the first line feed, 0 *)
(* when there is none                                                      *)
Memchr(buf, ch) ==
   LET hits == {i \in 1..Len(buf) : buf[i] = ch}
   IN  IF hits = {} THEN 0 ELSE SetMin(hits)

ProceedHttp1Reading(c) ==
   IF ~cno_stream_find(c, 1) THEN Return(CNO_ERROR(c, "ASSERTION"))
   ELSE IF "DATA" \notin Stream(c, 1).accept THEN Return(CNO_ERROR(c, "ASSERTION"))
   ELSE IF c.http1_remaining = 0
   THEN LET c1 == [c EXCEPT !.state = IF @ = "HTTP1_READING_UPGRADE"
                                      THEN "PREFACE" ELSE "HTTP1_READY"]
            c2 == CNO_FIRE(c1, Event("on_message_end", 1, <<>>, NoMsg, NoFrame, 0))
            accept == Stream(c2, 1).accept \ CNO_ACCEPT_INBOUND
            c3 == SetAccept(c2, 1, accept)
            c4 == IF accept = {} THEN cno_stream_rst(c3, 1) ELSE c3
        IN  IF ~Ok(c2) THEN Return(c2)
            ELSE IF ~Ok(c4) THEN Return(c4)
            ELSE Break(c4)
   ELSE IF c.buffer = <<>> THEN Return(c)
   ELSE IF c.http1_remaining = UINT32_MAX
   THEN LET eol == Memchr(c.buffer, 10)
            n == Strtoul16(c.buffer, 0, 0)
            total == n.length + eol + 2
        IN  IF eol = 0 THEN Return(c)
            ELSE IF n.end = 0 \/ n.end + 2 # eol THEN Return(CNO_ERROR(c, "TRANSPORT"))
            ELSE IF Len(c.buffer) < total THEN Return(c)
            ELSE IF c.buffer[total - 1] # 13 \/ c.buffer[total] # 10
            THEN Return(CNO_ERROR(c, "TRANSPORT"))
            ELSE LET c1 == [c EXCEPT !.buffer = Drop(@, total)]
                     c2 == IF n.length = 0 THEN [c1 EXCEPT !.http1_remaining = 0]
                           ELSE CNO_FIRE(c1, Event("on_message_data", 1,
                                   SubSeq(c.buffer, eol + 1, eol + n.length),
                                   NoMsg, NoFrame, n.length))
                 IN  IF ~Ok(c2) THEN Return(c2) ELSE Break(c2)
   ELSE LET size == IF ULt(c.http1_remaining, Len(c.buffer))
                    THEN c.http1_remaining ELSE Len(c.buffer)
            c1 == [c EXCEPT !.http1_remaining = USub(@, size), !.buffer = Drop(@, size)]
            c2 == CNO_FIRE(c1, Event("on_message_data", 1, Take(c.buffer, size),
                                     NoMsg, NoFrame, size))
        IN  IF ~Ok(c2) THEN Return(c2) ELSE Break(c2)

(* what the application's on_upgrade does when it accepts the protocol:    *)
(* it answers 101 on stream 1                                              *)
OnUpgrade(c) ==
   LET c1 == CNO_FIRE(c, Event("on_upgrade", 0, <<>>, NoMsg, NoFrame, 0))
   IN  IF Ok(c1) /\ "upgrade_101" \in c.app
       THEN Call("cno_write_message", <<c1, 1,
               [code |-> 101, method |-> <<>>, path |-> <<>>,
                headers |-> <<Header(STR_connection, STR_upgrade),
                              Header(STR_upgrade, STR_foo)>>], FALSE>>)
       ELSE c1

ProceedUnknownProtocolUpgrade(c) ==
   LET c1 == Call("OnUpgrade", <<c>>)
   IN  IF ~Ok(c1) THEN Return(c1)
       ELSE Break([c1 EXCEPT !.state = IF @ = "UNKNOWN_PROTOCOL_UPGRADE"
                                       THEN "HTTP1_READING" ELSE @])

(* the case of UNKNOWN_PROTOCOL with the data handed over and left in the  *)
(* buffer                                                                  *)
ProceedUnknownProtocol_kept(c) ==
   IF c.buffer = <<>> THEN Return(c)
   ELSE LET c1 == CNO_FIRE(c,
                     Event("on_message_data", 1, c.buffer, NoMsg, NoFrame, Len(c.buffer)))
        IN  IF ~Ok(c1) THEN Return(c1) ELSE Break(c1)

ProceedUnknownProtocol(c) ==
   IF c.buffer = <<>> THEN Return(c)
   ELSE LET c1 == CNO_FIRE([c EXCEPT !.buffer = <<>>],
                     Event("on_message_data", 1, c.buffer, NoMsg, NoFrame, Len(c.buffer)))
        IN  IF ~Ok(c1) THEN Return(c1) ELSE Break(c1)

ProceedInit(c) ==
   LET c1 == Call("cno_connection_upgrade", <<[c EXCEPT !.state = "PREFACE"]>>)
   IN  IF ~Ok(c1) THEN Return(c1) ELSE Break(c1)

ProceedPreface(c) ==
   IF c.client = 0
   THEN IF Len(c.buffer) < Len(CNO_PREFACE) THEN Return(c)
        ELSE IF Take(c.buffer, Len(CNO_PREFACE)) # CNO_PREFACE
        THEN Return(CNO_ERROR(c, "TRANSPORT"))
        ELSE Break([c EXCEPT !.buffer = Drop(@, Len(CNO_PREFACE)),
                             !.state = "READY_NO_SETTINGS"])
   ELSE Break([c EXCEPT !.state = "READY_NO_SETTINGS"])

(* cno_connection_proceed with the test of max_frame_size made once the   *)
(* whole frame is in the buffer                                            *)
ProceedReady_late(c) ==
   IF Len(c.buffer) < 9 THEN Return(c)
   ELSE
   LET m == read3(c.buffer)
   IN
   IF Len(c.buffer) < 9 + m THEN Return(c)
   ELSE IF ULt(c.settings[CNO_LOCAL][max_frame_size], m)
   THEN Return(Call("cno_frame_write_error", <<c, CNO_RST_FRAME_SIZE_ERROR>>))
   ELSE
   LET frame == Frame(read1(Drop(c.buffer, 3)), read1(Drop(c.buffer, 4)),
                      Low31(read4(Drop(c.buffer, 5))),
                      SubSeq(c.buffer, 10, 9 + m))
   IN
   IF c.state = "READY_NO_SETTINGS" /\ frame.type # CNO_FRAME_SETTINGS
   THEN Return(CNO_ERROR(c, "TRANSPORT"))
   ELSE
   LET c1 == [c EXCEPT !.state = "READY", !.buffer = Drop(@, 9 + m)]
   IN
   IF c1.goaway_sent = 0 \/ frame.stream <= c1.goaway_sent
   THEN LET c2 == CNO_FIRE(c1, Event("on_frame", 0, <<>>, NoMsg, frame, 0))
            c3 == Call("cno_frame_handle", <<c2, frame>>)
        IN  IF ~Ok(c2) THEN Return(c2)
            ELSE IF ~Ok(c3) THEN Return(c3)
            ELSE Break(c3)
   ELSE Break(c1)

(* ProceedReady without the test of the first frame *)
ProceedReady_anyfirst(c) ==
   IF Len(c.buffer) < 9 THEN Return(c)
   ELSE
   LET m == read3(c.buffer)
   IN
   IF ULt(c.settings[CNO_LOCAL][max_frame_size], m)
   THEN Return(Call("cno_frame_write_error", <<c, CNO_RST_FRAME_SIZE_ERROR>>))
   ELSE IF Len(c.buffer) < 9 + m THEN Return(c)
   ELSE
   LET frame == Frame(read1(Drop(c.buffer, 3)), read1(Drop(c.buffer, 4)),
                      Low31(read4(Drop(c.buffer, 5))),
                      SubSeq(c.buffer, 10, 9 + m))
   IN
   LET c1 == [c EXCEPT !.state = "READY", !.buffer = Drop(@, 9 + m)]
   IN
   IF c1.goaway_sent = 0 \/ frame.stream <= c1.goaway_sent
   THEN LET c2 == CNO_FIRE(c1, Event("on_frame", 0, <<>>, NoMsg, frame, 0))
            c3 == Call("cno_frame_handle", <<c2, frame>>)
        IN  IF ~Ok(c2) THEN Return(c2)
            ELSE IF ~Ok(c3) THEN Return(c3)
            ELSE Break(c3)
   ELSE Break(c1)

ProceedReady(c) ==
   IF Len(c.buffer) < 9 THEN Return(c)
   ELSE
   LET m == read3(c.buffer)
   IN
   IF ULt(c.settings[CNO_LOCAL][max_frame_size], m)
   THEN Return(Call("cno_frame_write_error", <<c, CNO_RST_FRAME_SIZE_ERROR>>))
   ELSE IF Len(c.buffer) < 9 + m THEN Return(c)
   ELSE
   LET frame == Frame(read1(Drop(c.buffer, 3)), read1(Drop(c.buffer, 4)),
                      Low31(read4(Drop(c.buffer, 5))),
                      SubSeq(c.buffer, 10, 9 + m))
   IN
   IF c.state = "READY_NO_SETTINGS" /\ frame.type # CNO_FRAME_SETTINGS
   THEN Return(CNO_ERROR(c, "TRANSPORT"))
   ELSE
   LET c1 == [c EXCEPT !.state = "READY", !.buffer = Drop(@, 9 + m)]
   IN
   IF c1.goaway_sent = 0 \/ frame.stream <= c1.goaway_sent
   THEN LET c2 == CNO_FIRE(c1, Event("on_frame", 0, <<>>, NoMsg, frame, 0))
            c3 == Call("cno_frame_handle", <<c2, frame>>)
        IN  IF ~Ok(c2) THEN Return(c2)
            ELSE IF ~Ok(c3) THEN Return(c3)
            ELSE Break(c3)
   ELSE Break(c1)

ProceedStep(c) ==
   CASE c.state = "UNDEFINED" -> Return(c)
     [] c.state = "HTTP1_READY" -> Call("ProceedHttp1Ready", <<c>>)
     [] c.state \in {"HTTP1_READING", "HTTP1_READING_UPGRADE"} -> Call("ProceedHttp1Reading", <<c>>)
     [] c.state = "UNKNOWN_PROTOCOL_UPGRADE" -> ProceedUnknownProtocolUpgrade(c)
     [] c.state = "UNKNOWN_PROTOCOL" -> Call("ProceedUnknownProtocol", <<c>>)
     [] c.state = "INIT" -> ProceedInit(c)
     [] c.state = "PREFACE" -> Call("ProceedPreface", <<c>>)
     [] c.state \in {"READY_NO_SETTINGS", "READY"} -> Call("ProceedReady", <<c>>)

cno_connection_proceed(c) ==
   LET s == Call("ProceedStep", <<c>>)
   IN  IF s.again THEN Call("cno_connection_proceed", <<s.c>>) ELSE s.c

cno_connection_made(c, version) ==
   IF c.state # "UNDEFINED" THEN CNO_ERROR(c, "ASSERTION")
   ELSE Call("cno_connection_proceed", <<
           [c EXCEPT !.state = IF version = "HTTP2" THEN "INIT" ELSE "HTTP1_READY"]>>)

(* cno_connection_data_received without cno_buffer_dyn_concat onto what is *)
(* left in the buffer: the new data replaces it                            *)
cno_connection_data_received_noconcat(c, data) ==
   IF c.state = "UNDEFINED" THEN CNO_ERROR(c, "DISCONNECT")
   ELSE Call("cno_connection_proceed", <<[c EXCEPT !.buffer = data]>>)

cno_connection_data_received(c, data) ==
   IF c.state = "UNDEFINED" THEN CNO_ERROR(c, "DISCONNECT")
   ELSE Call("cno_connection_proceed", <<[c EXCEPT !.buffer = @ \o data]>>)

cno_connection_stop(c) ==
   Call("cno_write_reset", <<c, 0, CNO_RST_NO_ERROR>>)

(* the loop of cno_connection_lost over the buckets *)
LostLoop(c) ==
   LET full == {b \in 0..(CNO_STREAM_BUCKETS - 1) : c.streams[b] # <<>>}
   IN  IF full = {} \/ ~Ok(c) THEN c
       ELSE Call("LostLoop", <<cno_stream_rst(c, c.streams[SetMin(full)][1].id)>>)

(* cno_connection_lost without `conn->state = CNO_CONNECTION_UNDEFINED` *)
cno_connection_lost_open(c) ==
   IF ~cno_connection_is_http2(c)
   THEN IF cno_stream_find(c, 1)
        THEN LET unknown == c.state = "UNKNOWN_PROTOCOL"
                 c1 == IF unknown
                       THEN CNO_FIRE(c, Event("on_message_end", 1, <<>>, NoMsg, NoFrame, 0))
                       ELSE c
                 accept == Stream(c1, 1).accept \ CNO_ACCEPT_INBOUND
                 c2 == SetAccept(c1, 1, accept)
             IN  IF ~Ok(c1) THEN c1
                 ELSE IF ~unknown /\ "DATA" \in Stream(c, 1).accept
                 THEN CNO_ERROR(c, "TRANSPORT")
                 ELSE IF accept = {} THEN cno_stream_rst(c2, 1) ELSE c2
        ELSE c
   ELSE Call("LostLoop", <<c>>)


cno_connection_lost(c) ==
   IF ~cno_connection_is_http2(c)
   THEN IF cno_stream_find(c, 1)
        THEN LET unknown == c.state = "UNKNOWN_PROTOCOL"
                 c1 == IF unknown
                       THEN CNO_FIRE(c, Event("on_message_end", 1, <<>>, NoMsg, NoFrame, 0))
                       ELSE c
                 accept == Stream(c1, 1).accept \ CNO_ACCEPT_INBOUND
                 c2 == SetAccept(c1, 1, accept)
             IN  IF ~Ok(c1) THEN c1
                 ELSE IF ~unknown /\ "DATA" \in Stream(c, 1).accept
                 THEN CNO_ERROR(c, "TRANSPORT")
                 ELSE IF accept = {} THEN cno_stream_rst(c2, 1) ELSE c2
        ELSE c
   ELSE Call("LostLoop", <<[c EXCEPT !.state = "UNDEFINED"]>>)

(***************************************************************************)
(* The call graph.  An operator that models a C function reaches the       *)
(* operators of the functions it calls through Call, by name and with the  *)
(* arguments in the order of the C prototype, so that every body occurs    *)
(* once in the next-state relation however many call sites it has.         *)
(***************************************************************************)
Call(fn, a) ==
   CASE fn = "cno_hpack_find_index" -> cno_hpack_find_index(a[1], a[2])
     [] fn = "cno_hpack_compare_index" -> cno_hpack_compare_index(a[1], a[2])
     [] fn = "cno_hpack_decode_uint" -> cno_hpack_decode_uint(a[1], a[2])
     [] fn = "cno_hpack_decode_string" -> cno_hpack_decode_string(a[1])
     [] fn = "cno_hpack_encode_string" -> cno_hpack_encode_string(a[1])
     [] fn = "cno_hpack_decode_one" -> cno_hpack_decode_one(a[1], a[2])
     [] fn = "cno_hpack_encode_one" -> cno_hpack_encode_one(a[1], a[2], a[3])
     [] fn = "cno_hpack_encode" -> cno_hpack_encode(a[1], a[2])
     [] fn = "cno_stream_new" -> cno_stream_new(a[1], a[2], a[3])
     [] fn = "cno_stream_free" -> cno_stream_free(a[1], a[2])
     [] fn = "FrameWriteOne" -> FrameWriteOne(a[1], a[2])
     [] fn = "FrameWriteParts" -> FrameWriteParts(a[1], a[2], a[3], a[4], a[5], a[6])
     [] fn = "cno_frame_write" -> cno_frame_write(a[1], a[2])
     [] fn = "cno_frame_write_rst_stream" -> cno_frame_write_rst_stream(a[1], a[2], a[3])
     [] fn = "cno_frame_write_error" -> cno_frame_write_error(a[1], a[2])
     [] fn = "cno_frame_handle_end_stream" -> cno_frame_handle_end_stream(a[1], a[2])
     [] fn = "cno_frame_handle_message" -> cno_frame_handle_message(a[1], a[2], a[3], a[4])
     [] fn = "cno_frame_handle_end_headers" -> cno_frame_handle_end_headers(a[1], a[2], a[3])
     [] fn = "UseAfterFree" -> UseAfterFree(a[1], a[2], a[3])
     [] fn = "HeadersOnStream" -> HeadersOnStream(a[1], a[2])
     [] fn = "cno_frame_handle_headers" -> cno_frame_handle_headers(a[1], a[2], a[3])
     [] fn = "cno_frame_handle_push_promise" -> cno_frame_handle_push_promise(a[1], a[2], a[3])
     [] fn = "cno_frame_handle_continuation" -> cno_frame_handle_continuation(a[1], a[2], a[3])
     [] fn = "cno_frame_handle_data" -> cno_frame_handle_data(a[1], a[2], a[3])
     [] fn = "cno_frame_handle_ping" -> cno_frame_handle_ping(a[1], a[2], a[3])
     [] fn = "cno_frame_handle_rst_stream" -> cno_frame_handle_rst_stream(a[1], a[2], a[3])
     [] fn = "cno_frame_handle_settings" -> cno_frame_handle_settings(a[1], a[2], a[3])
     [] fn = "cno_frame_handle_window_update" -> cno_frame_handle_window_update(a[1], a[2], a[3])
     [] fn = "cno_frame_handle" -> cno_frame_handle(a[1], a[2])
     [] fn = "cno_connection_set_config" -> cno_connection_set_config(a[1], a[2])
     [] fn = "cno_connection_upgrade" -> cno_connection_upgrade(a[1])
     [] fn = "cno_write_reset" -> cno_write_reset(a[1], a[2], a[3])
     [] fn = "cno_write_push" -> cno_write_push(a[1], a[2], a[3])
     [] fn = "cno_discard_remaining_payload" -> cno_discard_remaining_payload(a[1], a[2])
     [] fn = "WriteMessageHttp1" -> WriteMessageHttp1(a[1], a[2], a[3], a[4])
     [] fn = "WriteMessageHttp2" -> WriteMessageHttp2(a[1], a[2], a[3], a[4])
     [] fn = "cno_write_message" -> cno_write_message(a[1], a[2], a[3], a[4])
     [] fn = "cno_write_data" -> cno_write_data(a[1], a[2], a[3], a[4])
     [] fn = "Http1HeaderLoop" -> Http1HeaderLoop(a[1], a[2], a[3], a[4])
     [] fn = "ProceedHttp1Ready" -> ProceedHttp1Ready(a[1])
     [] fn = "ProceedHttp1Reading" -> ProceedHttp1Reading(a[1])
     [] fn = "OnUpgrade" -> OnUpgrade(a[1])
     [] fn = "ProceedUnknownProtocol" -> ProceedUnknownProtocol(a[1])
     [] fn = "ProceedPreface" -> ProceedPreface(a[1])
     [] fn = "ProceedReady" -> ProceedReady(a[1])
     [] fn = "ProceedStep" -> ProceedStep(a[1])
     [] fn = "LostLoop" -> LostLoop(a[1])
     [] fn = "cno_connection_lost" -> cno_connection_lost(a[1])
     [] fn = "cno_connection_proceed" -> cno_connection_proceed(a[1])
     [] fn = "cno_connection_made" -> cno_connection_made(a[1], a[2])
     [] fn = "cno_connection_data_received" -> cno_connection_data_received(a[1], a[2])
     [] fn = "cno_connection_stop" -> cno_connection_stop(a[1])

(***************************************************************************)
(* The peer and the application.  What the peer sends is bytes: the frames *)
(* below in their wire form, HTTP/1.x heads and bodies, the preface.       *)
(***************************************************************************)
WireFrame(type, flags, stream, payload) ==
   FrameHeader(Len(payload), Frame(type, flags, stream, payload)) \o payload

(* header blocks made of references to the static table and of literals    *)
(* without indexing only, so that they decode the same in every state of   *)
(* the dynamic table                                                       *)
RequestBlock == <<130, 134, 132>>
ResponseBlock == <<136>>
TrailerBlock == <<0, 1, 120, 1, 121>>

SettingsFrame(payload) ==
   WireFrame(CNO_FRAME_SETTINGS, 0, 0, payload)

Setting(i, value) ==
   Pack(i, 2) \o Pack(value, 4)

STR_ab == <<97, 98>>

H1Head(k) ==
   <<H1_HEAD + k, H1_HEAD_END>>

(* the message the application writes *)
AppMessage(c) ==
   IF c.client = 1
   THEN [code |-> 0, method |-> STR_GET, path |-> STR_SLASH, headers |-> <<>>]
   ELSE [code |-> 200, method |-> <<>>, path |-> <<>>, headers |-> <<>>]

PushMessage ==
   [code |-> 0, method |-> STR_GET, path |-> STR_SLASH, headers |-> <<>>]

(* the start of an API call: nothing fired yet, no error; fail is the set  *)
(* of callbacks that will fail during the call and ub the outcome of       *)
(* undefined behaviour, should the call run into it                        *)
Begin(c, fail, ub) ==
   [c EXCEPT !.cb = <<>>, !.rc = CNO_OK, !.ret = 0, !.fail = fail, !.ub = ub]

UbOutcomes == {"crash", "stale"}

(* errors after which the application may only call cno_connection_lost *)
Fatal == {"TRANSPORT", "DISCONNECT", "CRASH"}

(***************************************************************************)
(* The monitor: what the application has seen so far.  last[id] is the     *)
(* latest callback about the message of the stream (it starts anew when a  *)
(* stream of that id is created), ended the ids that got on_message_end,   *)
(* hdr the                                                                 *)
(* flags of the latest HEADERS frame received, live the streams that were  *)
(* announced by an on_stream_start that succeeded and not yet by           *)
(* on_stream_end.                                                          *)
(***************************************************************************)
InboundCallbacks ==
   {"on_message_start", "on_message_data", "on_message_trail", "on_message_end",
    "on_message_push"}

MessageCallbacks ==
   InboundCallbacks \ {"on_message_push"}

Last(m, id) ==
   IF id \in DOMAIN m.last THEN m.last[id] ELSE "none"

Observe(m, e, fail) ==
   IF e.ev = "on_stream_start"
   THEN [m EXCEPT !.last = (e.id :> "none") @@ @,
                  !.live = IF e.ev \in fail THEN @ ELSE @ \cup {e.id}]
   ELSE IF e.ev = "on_stream_end"
   THEN [m EXCEPT !.live = @ \ {e.id}]
   ELSE IF e.ev \in MessageCallbacks
   THEN [m EXCEPT !.last = (e.id :> e.ev) @@ @,
                  !.ended = IF e.ev = "on_message_end" THEN @ \cup {e.id} ELSE @]
   ELSE IF e.ev = "on_frame" /\ e.frame.type = CNO_FRAME_HEADERS
   THEN [m EXCEPT !.hdr = e.frame.flags]
   ELSE m

RECURSIVE ObserveAll(_, _, _)
ObserveAll(m, cb, fail) ==
   IF cb = <<>> THEN m ELSE ObserveAll(Observe(m, Head(cb), fail), Tail(cb), fail)

(***************************************************************************)
(* The state machine of one connection and its application.                *)
(***************************************************************************)
VARIABLES conn, mon, steps, twin, acc, rest, enc, dec, rt

vars == <<conn, mon, steps, twin, acc, rest, enc, dec, rt>>

MaxSteps == 4
MaxStreamId == 3

StreamIds == 1..MaxStreamId

NoMonitor ==
   [last |-> <<>>, ended |-> {}, hdr |-> 0, live |-> {}, lost |-> FALSE]

Idle ==
   /\ twin = <<>> /\ acc = <<>> /\ rest = <<>>
   /\ enc = cno_hpack_init(0) /\ dec = cno_hpack_init(0) /\ rt = <<>>

Init ==
   /\ conn \in {cno_connection_init("CLIENT"), cno_connection_init("SERVER"),
                [cno_connection_init("SERVER") EXCEPT !.on_upgrade = TRUE,
                                                      !.app = {"upgrade_101"}]}
   /\ mon = NoMonitor
   /\ steps = 0
   /\ Idle

Alive ==
   /\ steps < MaxSteps
   /\ ~mon.lost

Running ==
   /\ Alive
   /\ conn.state # "UNDEFINED"
   /\ conn.rc \notin Fatal

(* the call returned c *)
Called(c) ==
   /\ conn' = [c EXCEPT !.fail = {}, !.ub = "crash"]
   /\ mon' = ObserveAll(mon, c.cb, c.fail)
   /\ steps' = steps + 1
   /\ UNCHANGED <<twin, acc, rest, enc, dec, rt>>

Made(version) ==
   /\ Alive
   /\ steps = 0
   /\ version = "HTTP2" => ~conn.on_upgrade
   /\ Called(Call("cno_connection_made", <<Begin(conn, {}, "crash"), version>>))

(* what the peer may send next *)
Http1Inputs(c) ==
   IF c.client = 1
   THEN {H1Head(6), H1Head(7), H1Head(8), STR_ab}
   ELSE {H1Head(1), H1Head(2), H1Head(5), STR_ab, CNO_PREFACE,
         CNO_PREFACE \o SettingsFrame(<<>>)}

StreamFrames(c, id) ==
   LET block == IF c.client = 1 THEN ResponseBlock ELSE RequestBlock
   IN  {WireFrame(CNO_FRAME_HEADERS, CNO_FLAG_END_HEADERS, id, block),
        WireFrame(CNO_FRAME_HEADERS, CNO_FLAG_END_HEADERS + CNO_FLAG_END_STREAM, id, block),
        WireFrame(CNO_FRAME_HEADERS, CNO_FLAG_END_STREAM, id, <<>>),
        WireFrame(CNO_FRAME_HEADERS, CNO_FLAG_END_HEADERS + CNO_FLAG_END_STREAM, id,
                  TrailerBlock),
        WireFrame(CNO_FRAME_HEADERS, CNO_FLAG_END_HEADERS, id, TrailerBlock),
        WireFrame(CNO_FRAME_HEADERS,
                  CNO_FLAG_END_HEADERS + CNO_FLAG_END_STREAM + CNO_FLAG_PRIORITY, id,
                  Pack(id, 4) \o <<0>> \o TrailerBlock),
        WireFrame(CNO_FRAME_CONTINUATION, CNO_FLAG_END_HEADERS, id, block),
        WireFrame(CNO_FRAME_DATA, 0, id, STR_ab),
        WireFrame(CNO_FRAME_DATA, CNO_FLAG_END_STREAM, id, <<>>),
        WireFrame(CNO_FRAME_RST_STREAM, 0, id, Pack(CNO_RST_PROTOCOL_ERROR, 4))}

(* two requests in one chunk *)
TwoStreams(c) ==
   WireFrame(CNO_FRAME_HEADERS, CNO_FLAG_END_HEADERS, 1, RequestBlock)
   \o WireFrame(CNO_FRAME_HEADERS, CNO_FLAG_END_HEADERS, 3, RequestBlock)

Http2Inputs(c) ==
   UNION {StreamFrames(c, id) : id \in StreamIds}
   \cup {TwoStreams(c)}
   \cup {SettingsFrame(<<>>),
         SettingsFrame(Setting(max_concurrent_streams, 1))}
   \cup (IF c.client = 1
         THEN {WireFrame(CNO_FRAME_PUSH_PROMISE, CNO_FLAG_END_HEADERS, 1,
                         Pack(2, 4) \o RequestBlock),
               WireFrame(CNO_FRAME_PUSH_PROMISE, 0, 1, Pack(2, 4))}
         ELSE {})

Inputs(c) ==
   IF c.state \in {"READY", "READY_NO_SETTINGS"} THEN Http2Inputs(c)
   ELSE IF c.state = "PREFACE"
   THEN {CNO_PREFACE \o SettingsFrame(<<>>)}
   ELSE Http1Inputs(c)

DataReceived(data, fail, ub) ==
   /\ Running
   /\ Called(Call("cno_connection_data_received", <<Begin(conn, fail, ub), data>>))

WriteMessage(stream, final, fail) ==
   /\ Running
   /\ Called(Call("cno_write_message", <<Begin(conn, fail, "crash"), stream, AppMessage(conn), final>>))

WriteData(stream, length, final) ==
   /\ Running
   /\ Called(Call("cno_write_data", <<Begin(conn, {}, "crash"), stream, length, final>>))

WritePush(stream) ==
   /\ Running
   /\ Called(Call("cno_write_push", <<Begin(conn, {}, "crash"), stream, PushMessage>>))

WriteReset(stream, code) ==
   /\ Running
   /\ Called(Call("cno_write_reset", <<Begin(conn, {}, "crash"), stream, code>>))

SetConfig(settings) ==
   /\ Alive
   /\ conn.rc \notin Fatal
   /\ Called(Call("cno_connection_set_config", <<Begin(conn, {}, "crash"), settings>>))

Lost ==
   /\ Alive
   /\ conn.state # "UNDEFINED"
   /\ conn.rc # "CRASH"
   /\ conn' = [Call("cno_connection_lost", <<Begin(conn, {}, "crash")>>) EXCEPT !.fail = {}]
   /\ mon' = [ObserveAll(mon, conn'.cb, {}) EXCEPT !.lost = TRUE]
   /\ steps' = steps + 1
   /\ UNCHANGED <<twin, acc, rest, enc, dec, rt>>

FailSets == {{}, {"on_stream_start"}, {"on_message_trail"}}

(* the callbacks that may fail while `data` is handled: between frames of  *)
(* HTTP/2 on_stream_start is fired for a HEADERS or a PUSH_PROMISE only    *)
FailsFor(c, data) ==
   IF c.state \in {"READY", "READY_NO_SETTINGS"} /\ c.buffer = <<>>
      /\ Len(data) >= 9 /\ data[4] \notin {CNO_FRAME_HEADERS, CNO_FRAME_PUSH_PROMISE}
   THEN {{}} ELSE FailSets

(* the outcomes of undefined behaviour while `data` is handled: only a     *)
(* HEADERS frame with a priority prefix can reset the stream it is for     *)
UbFor(data) ==
   IF Len(data) >= 9 /\ data[4] = CNO_FRAME_HEADERS /\ HasFlag(data[5], CNO_FLAG_PRIORITY)
   THEN UbOutcomes ELSE {"crash"}

LowSettings ==
   [CNO_SETTINGS_INITIAL EXCEPT ![max_concurrent_streams] = 1]

Next ==
   \/ \E version \in {"HTTP1", "HTTP2"} : Made(version)
   \/ \E data \in Inputs(conn) : \E fail \in FailsFor(conn, data), ub \in UbFor(data) :
         DataReceived(data, fail, ub)
   \/ \E stream \in StreamIds, final \in BOOLEAN, fail \in FailSets :
         WriteMessage(stream, final, fail)
   \/ \E stream \in StreamIds, length \in {2}, final \in BOOLEAN :
         WriteData(stream, length, final)
   \/ \E stream \in StreamIds : WritePush(stream)
   \/ \E stream \in 0..MaxStreamId, code \in {CNO_RST_NO_ERROR} :
         WriteReset(stream, code)
   \/ SetConfig(LowSettings)
   \/ Lost

Spec ==
   Init /\ [][Next]_vars

(***************************************************************************)
(* What the last call did.                                                 *)
(***************************************************************************)
Fired(ev) ==
   \E i \in 1..Len(conn.cb) : conn.cb[i].ev = ev

FiredOn(ev, id) ==
   \E i \in 1..Len(conn.cb) : conn.cb[i].ev = ev /\ conn.cb[i].id = id

(* the ids of the streams in the table, and those of one side *)
LiveStreams(c) ==
   UNION {{c.streams[b][i].id : i \in 1..Len(c.streams[b])} :
             b \in 0..(CNO_STREAM_BUCKETS - 1)}

LiveOf(c, k) ==
   {id \in LiveStreams(c) : cno_stream_is_local(c, id) = k}


(***************************************************************************)
(* Stream ids and the stream table.                                        *)
(***************************************************************************)
Sides == {CNO_REMOTE, CNO_LOCAL}

(* the ids tried on cno_stream_new: those the peers use and two beyond *)
TriedIds == 1..(MaxStreamId + 2)

(* the connection as an API call finds it *)
Fresh(c) ==
   Begin(c, {}, "crash")

(* the originator of a stream of side k is the client iff k is the side of *)
(* a client's own streams; a client-initiated id is odd                    *)
ParityOk(c, id, k) ==
   (id % 2 = 1) <=> ((k = CNO_LOCAL) = (c.client = 1))

Untouched(c, r) ==
   /\ r.streams = c.streams
   /\ r.last_stream = c.last_stream
   /\ r.stream_count = c.stream_count

(* C1: in HTTP/2 mode a stream that cno_stream_new accepts for side k has  *)
(* the parity of its originator and an id above last_stream[k], and        *)
(* last_stream[k] is that id afterwards; an id of the wrong parity or not  *)
(* above last_stream[k] is refused with INVALID_STREAM, and the table and  *)
(* the counters stay as they were.                                         *)
C1_StreamIdsParityMonotonic ==
   cno_connection_is_http2(conn) =>
      \A id \in TriedIds, k \in Sides :
         LET c == Fresh(conn)
             r == Call("cno_stream_new", <<c, id, k>>)
         IN  /\ id \in LiveStreams(r) \ LiveStreams(c) =>
                   /\ ParityOk(c, id, k)
                   /\ ULt(c.last_stream[k], id)
                   /\ r.last_stream[k] = id
                   /\ Ok(r)
             /\ (~ParityOk(c, id, k) \/ ULe(id, c.last_stream[k])) =>
                   /\ Untouched(c, r)
                   /\ r.rc = "INVALID_STREAM"
                   /\ r.cb = <<>>

(* an HTTP/2 call created a stream, another one exists, and the newest id  *)
(* of that side is the one created                                         *)
C1_Witness ==
   /\ cno_connection_is_http2(conn)
   /\ \E id \in LiveStreams(conn) :
         /\ FiredOn("on_stream_start", id)
         /\ conn.last_stream[cno_stream_is_local(conn, id)] = id
         /\ id > 1

(* C2 as stated: no call lowers last_stream[side]. *)
C2_LastStreamNeverDecreases ==
   [][\A k \in Sides : ULe(conn.last_stream[k], conn'.last_stream[k])]_vars

(* the call that took a server from HTTP/1.x to HTTP/2 on the prior-       *)
(* knowledge preface                                                       *)
PrefaceSwitch ==
   /\ conn.client = 0
   /\ conn.state = "HTTP1_READY"
   /\ cno_connection_is_http2(conn')
   /\ conn'.last_stream = (CNO_REMOTE :> 0 @@ CNO_LOCAL :> 0)

(* C2, amended: no call lowers last_stream[side], except the data_received *)
(* that switches an HTTP/1.x server to HTTP/2 on the prior-knowledge       *)
(* preface, which sets both counters to 0.                                 *)
C2_LastStreamDecreasesOnlyOnSwitch ==
   [][(\A k \in Sides : ULe(conn.last_stream[k], conn'.last_stream[k]))
      \/ PrefaceSwitch]_vars

(* streams were created on both sides of an HTTP/2 connection, the second  *)
(* of one side by the last call                                            *)
C2_Witness ==
   /\ cno_connection_is_http2(conn)
   /\ \E k \in Sides : conn.last_stream[k] >= 3 /\ FiredOn("on_stream_start", conn.last_stream[k])

(* C3: between API calls stream_count[k] is the number of streams of side  *)
(* k in the table, every stream is in the bucket of its id and only once,  *)
(* and the streams in the table are those announced by on_stream_start     *)
(* and not yet by on_stream_end, a creation rolled back after a failed     *)
(* on_stream_start included.                                               *)
C3_StreamCountMatchesTable ==
   /\ \A k \in Sides : conn.stream_count[k] = Cardinality(LiveOf(conn, k))
   /\ \A b \in 0..(CNO_STREAM_BUCKETS - 1) :
         /\ \A i \in 1..Len(conn.streams[b]) : Bucket(conn.streams[b][i].id) = b
         /\ \A i, j \in 1..Len(conn.streams[b]) :
               conn.streams[b][i].id = conn.streams[b][j].id => i = j
   /\ LiveStreams(conn) = mon.live

(* on_stream_start failed in the last call, the creation was rolled back   *)
(* and another stream is still there                                       *)
C3_Witness ==
   /\ conn.rc = "CALLBACK"
   /\ \E i \in 1..Len(conn.cb) :
         /\ conn.cb[i].ev = "on_stream_start"
         /\ conn.cb[i].id \notin LiveStreams(conn)
   /\ LiveStreams(conn) # {}

Limit(c, k) ==
   c.settings[1 - k][max_concurrent_streams]

(* C4 as stated: the count of a side never exceeds the limit its peer set. *)
C4_CountWithinLimit ==
   \A k \in Sides : ULe(conn.stream_count[k], Limit(conn, k))

(* C4, amended: the limit is tested when a stream is created, against the  *)
(* setting in force at that moment: a creation at or above the limit       *)
(* creates nothing and fails with WOULD_BLOCK for a local stream and with  *)
(* TRANSPORT for a peer's, and a creation that succeeds leaves the count   *)
(* within the limit.  (A SETTINGS frame or set_config that lowers the      *)
(* limit below the number of open streams closes none of them.)            *)
C4_LimitTestedAtCreation ==
   \A id \in TriedIds, k \in Sides :
      LET c == Fresh(conn)
          r == Call("cno_stream_new", <<c, id, k>>)
          eligible == /\ cno_stream_is_local(c, id) = k
                      /\ IF cno_connection_is_http2(c)
                         THEN id > c.last_stream[k] ELSE id = 1
      IN  /\ (eligible /\ ULe(Limit(c, k), c.stream_count[k])) =>
                /\ r.streams = c.streams
                /\ r.stream_count = c.stream_count
                /\ r.cb = <<>>
                /\ r.rc = IF k = CNO_LOCAL THEN "WOULD_BLOCK" ELSE "TRANSPORT"
          /\ r.stream_count[k] > c.stream_count[k] =>
                ULe(r.stream_count[k], Limit(r, k))

(* the last call tried to open a stream at the limit and was refused *)
C4_Witness ==
   /\ cno_connection_is_http2(conn)
   /\ conn.rc \in {"WOULD_BLOCK", "TRANSPORT"}
   /\ \E k \in Sides :
         /\ conn.stream_count[k] = 1
         /\ Limit(conn, k) = 1
         /\ conn.rc = IF k = CNO_LOCAL THEN "WOULD_BLOCK" ELSE "TRANSPORT"
         /\ \E i \in 1..Len(conn.cb) :
               /\ conn.cb[i].ev = "on_frame"
               /\ conn.cb[i].frame.type = CNO_FRAME_HEADERS
               /\ ~cno_stream_find(conn, conn.cb[i].frame.stream)

(***************************************************************************)
(* Flow control: an HTTP/2 connection whose peer sends SETTINGS and        *)
(* WINDOW_UPDATE frames while the application writes data.                 *)
(***************************************************************************)
MaxFlowSteps == 6

INT32_MIN == -INT32_MAX - 1

WindowUpdate(stream, increment) ==
   WireFrame(CNO_FRAME_WINDOW_UPDATE, 0, stream, Pack(increment, 4))

(* increments that fit any window of the model, that fill the initial      *)
(* window to the brim, and that overflow it                                *)
Increments ==
   {1, INT32_MAX - CNO_SETTINGS_STANDARD[initial_window_size], INT32_MAX}

InitialWindows == {0, 1, INT32_MAX, INT32_MIN}

FlowInputs(c) ==
   IF c.state = "PREFACE"
   THEN {CNO_PREFACE \o SettingsFrame(<<>>)}
   ELSE {SettingsFrame(Setting(initial_window_size, w)) : w \in InitialWindows}
        \cup {WindowUpdate(id, n) : id \in 0..1, n \in Increments}
        \cup (IF c.client = 1 THEN {}
              ELSE {WireFrame(CNO_FRAME_HEADERS, CNO_FLAG_END_HEADERS, 1, RequestBlock)})

FlowRunning ==
   /\ steps < MaxFlowSteps
   /\ ~mon.lost
   /\ conn.rc \notin Fatal

(* the call returned c; acc keeps the arguments of a cno_write_data *)
FlowCalled(c, call) ==
   /\ conn' = [c EXCEPT !.fail = {}, !.ub = "crash"]
   /\ mon' = ObserveAll(mon, c.cb, c.fail)
   /\ steps' = steps + 1
   /\ acc' = call
   /\ UNCHANGED <<twin, rest, enc, dec, rt>>

(* lengths within every window of the model, and one above the initial     *)
(* window of the connection                                                *)
FlowLengths ==
   {2, 3, CNO_SETTINGS_STANDARD[initial_window_size] + 1}

FlowMade ==
   /\ FlowRunning
   /\ steps = 0
   /\ ~conn.on_upgrade
   /\ FlowCalled(Call("cno_connection_made", <<Begin(conn, {}, "crash"), "HTTP2">>), <<>>)

FlowReceived(data) ==
   /\ FlowRunning
   /\ conn.state # "UNDEFINED"
   /\ FlowCalled(Call("cno_connection_data_received", <<Begin(conn, {}, "crash"), data>>), <<>>)

FlowWriteMessage ==
   /\ FlowRunning
   /\ conn.state # "UNDEFINED"
   /\ FlowCalled(Call("cno_write_message", <<Begin(conn, {}, "crash"), 1, AppMessage(conn), FALSE>>),
                 <<>>)

FlowWriteData(length, final) ==
   /\ FlowRunning
   /\ conn.state # "UNDEFINED"
   /\ FlowCalled(Call("cno_write_data", <<Begin(conn, {}, "crash"), 1, length, final>>),
                 <<"write_data", length, final>>)

FlowNext ==
   \/ FlowMade
   \/ \E data \in FlowInputs(conn) : FlowReceived(data)
   \/ FlowWriteMessage
   \/ \E length \in FlowLengths, final \in BOOLEAN : FlowWriteData(length, final)

SpecFlow ==
   Init /\ [][FlowNext]_vars

AllStreams(c) ==
   UNION {Range(c.streams[b]) : b \in 0..(CNO_STREAM_BUCKETS - 1)}

InWindow(w) ==
   0 <= w /\ w <= INT32_MAX

(* the frame the peer sends to raise the send window of the connection     *)
(* (id 0) or of stream id                                                  *)
UpdateFrame(id, n) ==
   Frame(CNO_FRAME_WINDOW_UPDATE, 0, id, Pack(n, 4))

SendWindow(c, id) ==
   IF id = 0 THEN c.window_send ELSE Stream(c, id).window_send

WroteFrame(c, type, stream, payload) ==
   \E i \in 1..Len(c.cb) :
      /\ c.cb[i].ev = "on_frame_send"
      /\ c.cb[i].frame.type = type
      /\ c.cb[i].frame.stream = stream
      /\ c.cb[i].frame.payload = payload

(* a GOAWAY frame with the error code was written *)
WroteGoaway(c, code) ==
   \E i \in 1..Len(c.cb) :
      /\ c.cb[i].ev = "on_frame_send"
      /\ c.cb[i].frame.type = CNO_FRAME_GOAWAY
      /\ c.cb[i].frame.stream = 0
      /\ SubSeq(c.cb[i].frame.payload, 5, 8) = Pack(code, 4)

(* C5: the send window of the connection and of every stream in the table  *)
(* is within 0..2^31-1 after every call; a WINDOW_UPDATE that would take a *)
(* window above 2^31-1 leaves it as it was and is answered with            *)
(* GOAWAY(FLOW_CONTROL_ERROR) and TRANSPORT for the connection window and  *)
(* with RST_STREAM(FLOW_CONTROL_ERROR) for a stream window; one that fits  *)
(* adds its increment.                                                     *)
C5_SendWindowsInRange ==
   /\ InWindow(conn.window_send)
   /\ \A s \in AllStreams(conn) : InWindow(s.window_send)
   /\ (cno_connection_is_http2(conn) /\ conn.continued_stream = 0) =>
         \A id \in {0} \cup LiveStreams(conn), n \in Increments :
            LET c == Fresh(conn)
                w == SendWindow(c, id)
                r == Call("cno_frame_handle", <<c, UpdateFrame(id, n)>>)
            IN  IF w > INT32_MAX - n
                THEN /\ id = 0 => /\ r.window_send = w
                                  /\ r.rc = "TRANSPORT"
                                  /\ WroteGoaway(r, CNO_RST_FLOW_CONTROL_ERROR)
                     /\ id # 0 => /\ cno_stream_find(r, id) => SendWindow(r, id) = w
                                  /\ r.window_send = c.window_send
                                  /\ Ok(r)
                                  /\ WroteFrame(r, CNO_FRAME_RST_STREAM, id,
                                        Pack(CNO_RST_FLOW_CONTROL_ERROR, 4))
                ELSE /\ SendWindow(r, id) = w + n
                     /\ Ok(r)

(* data was written on a stream, and the last call received a              *)
(* WINDOW_UPDATE that overflows the window of that stream                  *)
C5_Witness ==
   /\ conn.window_send < CNO_SETTINGS_STANDARD[initial_window_size]
   /\ WroteFrame(conn, CNO_FRAME_RST_STREAM, 1, Pack(CNO_RST_FLOW_CONTROL_ERROR, 4))
   /\ \E i \in 1..Len(conn.cb) :
         /\ conn.cb[i].ev = "on_frame"
         /\ conn.cb[i].frame.type = CNO_FRAME_WINDOW_UPDATE

(***************************************************************************)
(* Chunking: a byte sequence is fed to cno_connection_data_received in     *)
(* consecutive chunks; twin holds what one call with all of it gives and   *)
(* the sequence itself, acc the callbacks of the chunks so far, rest the   *)
(* chunks still to come.                                                   *)
(***************************************************************************)
MaxChunks == 3

(* the ways to cut s into at most n consecutive non-empty chunks *)
RECURSIVE Partitions(_, _)
Partitions(s, n) ==
   IF n <= 1 \/ Len(s) <= 1 THEN {<<s>>}
   ELSE {<<s>>} \cup
        UNION {{<<Take(s, k)>> \o p : p \in Partitions(Drop(s, k), n - 1)} :
                  k \in 1..(Len(s) - 1)}

ChunkedBody == <<50, 13, 10, 97, 98, 13, 10, 48, 13, 10, 13, 10>>

(* messages whose body comes with a content-length, and payload that       *)
(* follows an upgrade to a protocol the application accepted               *)
SplitProne ==
   {H1Head(2) \o STR_ab, H1Head(6) \o STR_ab, H1Head(5) \o STR_ab}

ChunkInputs(c) ==
   IF c.state = "HTTP1_READY" /\ c.client = 0
   THEN {H1Head(1), <<13, 10>> \o H1Head(1), H1Head(2) \o STR_ab,
         H1Head(3) \o ChunkedBody, H1Head(5) \o STR_ab,
         CNO_PREFACE \o SettingsFrame(<<>>)}
   ELSE IF c.state = "HTTP1_READY"
   THEN {H1Head(6) \o STR_ab, H1Head(7)}
   ELSE IF c.client = 0
   THEN {CNO_PREFACE \o SettingsFrame(<<>>)
         \o WireFrame(CNO_FRAME_HEADERS, CNO_FLAG_END_HEADERS, 1, RequestBlock)
         \o WireFrame(CNO_FRAME_DATA, CNO_FLAG_END_STREAM, 1, STR_ab)}
   ELSE {SettingsFrame(<<>>)
         \o WireFrame(CNO_FRAME_HEADERS, CNO_FLAG_END_HEADERS, 1, ResponseBlock)
         \o WireFrame(CNO_FRAME_DATA, CNO_FLAG_END_STREAM, 1, STR_ab)}

(* a call made before the sequence arrives returned c *)
ChunkSetup(c) ==
   /\ conn' = [c EXCEPT !.fail = {}, !.ub = "crash"]
   /\ mon' = ObserveAll(mon, c.cb, {})
   /\ steps' = steps + 1
   /\ UNCHANGED <<twin, acc, rest, enc, dec, rt>>

ChunkMade(version) ==
   /\ steps = 0
   /\ ChunkSetup(Call("cno_connection_made", <<Fresh(conn), version>>))

ChunkWriteMessage ==
   /\ steps = 1
   /\ conn.client = 1
   /\ ChunkSetup(Call("cno_write_message", <<Fresh(conn), 1, AppMessage(conn), TRUE>>))

(* the peer sends s, which the engine accepts when it comes in one piece,  *)
(* and the transport delivers it in chunks                                 *)
ChunkPicked(s, whole) ==
   /\ Ok(whole)
   /\ \E p \in Partitions(s, MaxChunks) : rest' = p
   /\ twin' = <<whole, s>>
   /\ UNCHANGED <<conn, mon, steps, acc, enc, dec, rt>>

ChunkPick ==
   /\ steps \in 1..2
   /\ twin = <<>>
   /\ Ok(conn)
   /\ \E s \in ChunkInputs(conn) :
         ChunkPicked(s, Call("cno_connection_data_received", <<Fresh(conn), s>>))

(* the call with the next chunk returned c *)
ChunkFed(c) ==
   /\ conn' = [c EXCEPT !.fail = {}, !.ub = "crash"]
   /\ mon' = ObserveAll(mon, c.cb, {})
   /\ acc' = acc \o c.cb
   /\ rest' = Tail(rest)
   /\ steps' = steps + 1
   /\ UNCHANGED <<twin, enc, dec, rt>>

ChunkFeed ==
   /\ rest # <<>>
   /\ conn.rc \notin Fatal
   /\ ChunkFed(Call("cno_connection_data_received", <<Fresh(conn), Head(rest)>>))

ChunkNext ==
   \/ \E version \in {"HTTP1", "HTTP2"} : ChunkMade(version)
   \/ ChunkWriteMessage
   \/ ChunkPick
   \/ ChunkFeed

SpecChunk ==
   Init /\ [][ChunkNext]_vars

(* all chunks of the sequence were fed *)
ChunkDone ==
   /\ twin # <<>>
   /\ rest = <<>>
   /\ acc # <<>>

(* consecutive on_message_data callbacks of a stream made one *)
RECURSIVE Coalesce(_)
Coalesce(cb) ==
   IF Len(cb) < 2 THEN cb
   ELSE IF /\ cb[1].ev = "on_message_data"
           /\ cb[2].ev = "on_message_data"
           /\ cb[1].id = cb[2].id
   THEN Coalesce(<<[cb[1] EXCEPT !.data = @ \o cb[2].data, !.aux = @ + cb[2].aux]>>
                 \o Drop(cb, 2))
   ELSE <<cb[1]>> \o Coalesce(Tail(cb))

(* C6 as stated: the chunks produce the callbacks, with their arguments,   *)
(* and the outbound bytes (the on_write callbacks) of the single call.     *)
C6_ChunkingIndependence ==
   ChunkDone => acc = twin[1].cb

(* C6, amended: every call with a chunk succeeds, the connection ends in   *)
(* the state the single call leaves it in, and the callbacks and outbound  *)
(* bytes are those of the single call, except that the body of an          *)
(* HTTP/1.x message with content-length and the payload after an upgrade   *)
(* to another protocol are handed to on_message_data as they arrive: there *)
(* the sequences are the same once consecutive on_message_data callbacks   *)
(* of a stream are made one.                                               *)
C6_ChunkingUpToDataSplits ==
   /\ twin # <<>> => Ok(conn)
   /\ ChunkDone =>
         /\ [conn EXCEPT !.cb = <<>>] = [twin[1] EXCEPT !.cb = <<>>]
         /\ Coalesce(acc) = Coalesce(twin[1].cb)
         /\ twin[2] \notin SplitProne => acc = twin[1].cb

(* a sequence was fed in MaxChunks chunks, a frame or a body cut in two    *)
C6_Witness ==
   /\ ChunkDone
   /\ steps >= MaxChunks + 1
   /\ \E i \in 1..Len(acc) : acc[i].ev = "on_message_data" /\ acc[i].data = STR_ab

(***************************************************************************)
(* The inbound callbacks of a stream.                                      *)
(***************************************************************************)
(* the monitor before the i-th callback of the call that returned c' *)
Before(i) ==
   ObserveAll(mon, Take(conn'.cb, i - 1), {})

Started == {"on_message_start", "on_message_data"}

(* the callbacks of a stream come in the order start, data*, trail?, end;  *)
(* trail comes for a HEADERS frame with END_STREAM only and is followed at *)
(* once by the end, unless the on_message_trail callback itself fails      *)
InOrder(i) ==
   LET e == conn'.cb[i]
       was == Last(Before(i), e.id)
   IN  /\ e.ev = "on_message_start" => was = "none"
       /\ e.ev = "on_message_data" => was \in Started
       /\ e.ev = "on_message_trail" =>
             /\ was \in Started
             /\ HasFlag(Before(i).hdr, CNO_FLAG_END_STREAM)
             /\ IF i < Len(conn'.cb)
                THEN conn'.cb[i + 1].ev = "on_message_end" /\ conn'.cb[i + 1].id = e.id
                ELSE conn'.rc = "CALLBACK"
       /\ e.ev = "on_message_end" => was \in Started \cup {"on_message_trail"}

(* C8 as stated: the callbacks of a stream come in order, and a stream     *)
(* whose message has started gets its on_message_end before it ends.       *)
C8_OrderedExactlyOneEnd ==
   [][\A i \in 1..Len(conn'.cb) :
         /\ InOrder(i)
         /\ conn'.cb[i].ev = "on_stream_end" =>
               Last(Before(i), conn'.cb[i].id) \notin Started]_vars

(* C8, amended: the callbacks of a stream come in order, with at most one  *)
(* on_message_end: a stream that is reset, or lost with the connection,    *)
(* before the end of its message gets none.                                *)
C8_OrderedAtMostOneEnd ==
   [][\A i \in 1..Len(conn'.cb) : InOrder(i)]_vars

(* trailers came on a stream that had got data, and on_message_end right   *)
(* after them                                                              *)
C8_Witness ==
   \E i \in 1..Len(conn.cb) :
      /\ conn.cb[i].ev = "on_message_trail"
      /\ i < Len(conn.cb)
      /\ conn.cb[i + 1].ev = "on_message_end"
      /\ conn.cb[i + 1].id = conn.cb[i].id

(***************************************************************************)
(* Header blocks that span frames.                                         *)
(***************************************************************************)
(* the frames the call that returned c took from the buffer *)
FramesOf(c) ==
   SelectSeq(c.cb, LAMBDA e : e.ev = "on_frame")

(* what continued_stream is after the frames fs, old being its value       *)
(* before them: the stream of a HEADERS, PUSH_PROMISE or CONTINUATION      *)
(* frame without END_HEADERS, and 0 after one with END_HEADERS             *)
Awaited(old, fs) ==
   IF fs = <<>> THEN old
   ELSE LET f == fs[Len(fs)].frame
        IN  IF f.type \in {CNO_FRAME_HEADERS, CNO_FRAME_PUSH_PROMISE, CNO_FRAME_CONTINUATION}
               /\ ~HasFlag(f.flags, CNO_FLAG_END_HEADERS)
            THEN f.stream
            ELSE IF f.type \in {CNO_FRAME_HEADERS, CNO_FRAME_PUSH_PROMISE,
                                CNO_FRAME_CONTINUATION}
            THEN 0
            ELSE old

(* frames of every type, the unknown ones included, for stream id *)
AnyFrames(id) ==
   {Frame(type, flags, id, <<>>) :
       type \in 0..(CNO_FRAME_UNKNOWN + 1), flags \in {0, CNO_FLAG_END_HEADERS}}

OnlyWrites(c) ==
   \A i \in 1..Len(c.cb) : c.cb[i].ev \in {"on_frame_send", "on_write"}

(* while a header block is open, a frame that does not continue it is      *)
(* refused before its handler                                              *)
Gate(c) ==
   (cno_connection_is_http2(c) /\ c.continued_stream # 0 /\ c.rc \notin Fatal) =>
      \A id \in 0..MaxStreamId : \A frame \in AnyFrames(id) :
         (frame.type # CNO_FRAME_CONTINUATION \/ id # c.continued_stream) =>
            LET r == Call("cno_frame_handle", <<Fresh(c), frame>>)
            IN  /\ r.rc = "TRANSPORT"
                /\ WroteGoaway(r, CNO_RST_PROTOCOL_ERROR)
                /\ OnlyWrites(r)
                /\ [r EXCEPT !.cb = <<>>, !.rc = CNO_OK] = Fresh(c)

(* C9: after a call that succeeds continued_stream is the stream of the    *)
(* last frame received if that was a HEADERS, PUSH_PROMISE or CONTINUATION *)
(* frame without END_HEADERS, 0 if it had END_HEADERS, and what it was     *)
(* before otherwise (a call that fails and leaves the connection usable    *)
(* may have stopped before its last frame took effect); while it is not 0, *)
(* any frame other than a CONTINUATION of that stream is answered with     *)
(* GOAWAY(PROTOCOL_ERROR) and TRANSPORT, and nothing else happens.         *)
C9_ContinuationAtomicity ==
   [][/\ Ok(conn') =>
            conn'.continued_stream = Awaited(conn.continued_stream, FramesOf(conn'))
      /\ conn'.rc \notin Fatal \cup {CNO_OK} =>
            conn'.continued_stream \in
               {Awaited(conn.continued_stream, FramesOf(conn')),
                Awaited(conn.continued_stream,
                        Take(FramesOf(conn'), Len(FramesOf(conn')) - 1))}
      /\ Gate(conn')]_vars

(* a DATA frame came while a header block was open and was refused *)
C9_Witness ==
   /\ conn.continued_stream # 0
   /\ conn.rc = "TRANSPORT"
   /\ WroteGoaway(conn, CNO_RST_PROTOCOL_ERROR)
   /\ FramesOf(conn) # <<>>
   /\ FramesOf(conn)[Len(FramesOf(conn))].frame.type = CNO_FRAME_DATA
   /\ ~Fired("on_message_data")

(***************************************************************************)
(* HPACK on its own: one encoder and one decoder, made with the same       *)
(* limit, exchange a sequence of header lists.                             *)
(***************************************************************************)
MaxLists == 2

MaxHeaders == 2

STR_a == <<97>>

STR_b == <<98>>

STR_1 == <<49>>

STR_2 == <<50>>

(* lowercase names; the third header shares its name with the first *)
HpackHeaders ==
   {Header(STR_a, STR_1), Header(STR_b, STR_1), Header(STR_a, STR_2)}

HeaderLists ==
   UNION {[1..n -> HpackHeaders] : n \in 1..MaxHeaders}

(* room for no entry, for one entry, and the standard table size *)
HpackLimits ==
   {0, EntrySize(Header(STR_a, STR_1)), CNO_SETTINGS_STANDARD[header_table_size]}

(* cno_hpack_init of both codecs *)
HpackInit(limit) ==
   /\ steps = 0
   /\ rt = <<>>
   /\ enc' = cno_hpack_init(limit)
   /\ dec' = cno_hpack_init(limit)
   /\ rt' = <<[sent |-> <<>>, rc |-> CNO_OK, got |-> <<>>, bytes |-> <<>>]>>
   /\ UNCHANGED <<conn, mon, steps, twin, acc, rest>>

(* cno_hpack_encode of a list, then cno_hpack_decode of the bytes *)
HpackCoded(H, e, d) ==
   /\ enc' = e.state
   /\ dec' = d.state
   /\ rt' = <<[sent |-> H, rc |-> d.rc, got |-> d.headers, bytes |-> e.out]>>

HpackEncoded(H, e) ==
   HpackCoded(H, e, cno_hpack_decode(dec, e.out, CNO_MAX_HEADERS))

(* acc keeps the limits requested since the previous encode *)
HpackRoundTrip ==
   /\ rt # <<>>
   /\ steps < MaxLists
   /\ \E H \in HeaderLists : HpackEncoded(H, Call("cno_hpack_encode", <<enc, H>>))
   /\ steps' = steps + 1
   /\ acc' = <<>>
   /\ UNCHANGED <<conn, mon, twin, rest>>

HpackNext ==
   \/ \E limit \in HpackLimits : HpackInit(limit)
   \/ HpackRoundTrip

SpecHpack == Init /\ [][HpackNext]_vars

(* C10: every non-empty list of headers with lowercase names, encoded by   *)
(* one encoder and decoded by one decoder made with the same limit, in     *)
(* sequence, decodes to exactly the list that was encoded.                 *)
C10_HpackRoundTrip ==
   \A i \in 1..Len(rt) :
      rt[i].sent # <<>> => rt[i].rc = CNO_OK /\ rt[i].got = rt[i].sent

MaxSetLimits == 2

(* no table, a limit that fills the 5-bit prefix (31), and tables of 1024  *)
(* and of 2048 bytes                                                       *)
SetLimits ==
   {0, EntrySize(Header(STR_a, STR_1)) - 3,
    CNO_SETTINGS_STANDARD[header_table_size] \div 4,
    CNO_SETTINGS_STANDARD[header_table_size] \div 2}

(* cno_hpack_setlimit of the encoder *)
HpackSetLimit(limit) ==
   /\ rt # <<>>
   /\ steps < MaxLists
   /\ Len(acc) < MaxSetLimits
   /\ enc' = cno_hpack_setlimit(enc, limit)
   /\ acc' = Append(acc, limit)
   /\ UNCHANGED <<conn, mon, steps, twin, rest, dec, rt>>

(* the encoder is told new limits between the lists *)
LimitNext ==
   \/ \E limit \in HpackLimits : HpackInit(limit)
   \/ \E limit \in SetLimits : HpackSetLimit(limit)
   \/ HpackRoundTrip

SpecLimit == Init /\ [][LimitNext]_vars

(* the dynamic-table-size updates at the head of a header block, as        *)
(* cno_hpack_decode reads them: entries 001xxxxx with a 5-bit integer      *)
RECURSIVE SizeUpdates(_)
SizeUpdates(bytes) ==
   IF bytes = <<>> \/ Head(bytes) \div 32 # 1 THEN <<>>
   ELSE LET u == Call("cno_hpack_decode_uint", <<bytes, 5>>)
        IN  IF u.rc # CNO_OK THEN <<u.rc>>
            ELSE <<u.value>> \o SizeUpdates(u.rest)

RECURSIVE SeqMin(_)
SeqMin(s) ==
   IF Len(s) = 1 THEN s[1] ELSE Min(s[1], SeqMin(Tail(s)))

(* the updates the requests call for, from the current limit *)
UpdatesFor(limit, requested) ==
   LET first  == IF SeqMin(requested) # limit THEN <<SeqMin(requested)>> ELSE <<>>
       after  == IF first # <<>> THEN first[1] ELSE limit
       second == IF requested[Len(requested)] # after
                 THEN <<requested[Len(requested)]>> ELSE <<>>
   IN  first \o second

(* C14: after any sequence of cno_hpack_setlimit calls since the previous  *)
(* encode, cno_hpack_encode emits at most two dynamic-table-size updates   *)
(* before the first header: the smallest requested limit if it differs     *)
(* from the current limit, then the latest requested limit if it differs   *)
(* from the limit after that; afterwards limit = limit_update_end =        *)
(* limit_update_min.                                                       *)
C14_SizeUpdatesCoalesced ==
   [][(acc # <<>> /\ acc' = <<>>) =>
         /\ SizeUpdates(rt'[1].bytes) = UpdatesFor(enc.limit, acc)
         /\ enc'.limit = enc'.limit_update_end
         /\ enc'.limit = enc'.limit_update_min]_vars

(***************************************************************************)
(* Two engines joined by a pipe: conn is the client, twin[1] the server,   *)
(* acc the bytes on their way to the server and rest the bytes on their    *)
(* way to the client.  rt is the log of what the two applications wrote    *)
(* and of the message callbacks they got.                                  *)
(***************************************************************************)
MaxPipeSteps == 10

MaxRequests == 2

BodySizes == {1, 14}

(* the bytes of the body are not the engine's business: a frame that       *)
(* carries them has only their number                                      *)
BodyBytes(n) ==
   [i \in 1..n |-> 120]

RECURSIVE Wire(_)
Wire(cb) ==
   IF cb = <<>> THEN <<>>
   ELSE (IF Head(cb).ev # "on_write" THEN <<>>
         ELSE IF Head(cb).data # <<>> THEN Head(cb).data
         ELSE BodyBytes(Head(cb).aux))
        \o Wire(Tail(cb))

RECURSIVE Logged(_, _)
Logged(side, cb) ==
   IF cb = <<>> THEN <<>>
   ELSE (IF Head(cb).ev \in MessageCallbacks
         THEN <<[side |-> side, ev |-> Head(cb).ev, id |-> Head(cb).id,
                 msg |-> Head(cb).msg, size |-> Len(Head(cb).data)]>>
         ELSE <<>>)
        \o Logged(side, Tail(cb))

Wrote(side, ev, id, msg, size) ==
   [side |-> side, ev |-> ev, id |-> id, msg |-> msg, size |-> size]

STR_http == <<104, 116, 116, 112>>

(* GET / with :authority, and with :scheme as well *)
PipeRequest(headers) ==
   [code |-> 0, method |-> STR_GET, path |-> STR_SLASH, headers |-> headers]

AuthorityOnly ==
   <<Header(STR_P_authority, STR_ab)>>

WithScheme ==
   <<Header(STR_P_scheme, STR_http), Header(STR_P_authority, STR_ab)>>

PipeResponse ==
   [code |-> 200, method |-> <<>>, path |-> <<>>, headers |-> <<>>]

PipeRunning ==
   /\ steps < MaxPipeSteps
   /\ twin # <<>>

(* the client returned c from a call *)
ClientCalled(c, wrote) ==
   /\ conn' = c
   /\ acc' = acc \o Wire(c.cb)
   /\ rt' = rt \o wrote \o Logged("client", c.cb)
   /\ steps' = steps + 1
   /\ UNCHANGED <<mon, twin, rest, enc, dec>>

(* the server returned c from a call *)
ServerCalled(c, wrote) ==
   /\ twin' = <<c>>
   /\ rest' = rest \o Wire(c.cb)
   /\ rt' = rt \o wrote \o Logged("server", c.cb)
   /\ steps' = steps + 1
   /\ UNCHANGED <<conn, mon, acc, enc, dec>>

PipeMadeBoth(c, s) ==
   /\ conn' = c
   /\ twin' = <<s>>
   /\ acc' = Wire(c.cb)
   /\ rest' = Wire(s.cb)
   /\ steps' = steps + 1
   /\ UNCHANGED <<mon, rt, enc, dec>>

PipeMade ==
   /\ steps = 0
   /\ conn.client = 1
   /\ twin = <<>>
   /\ PipeMadeBoth(Call("cno_connection_made", <<Begin(conn, {}, "crash"), "HTTP2">>),
                   Call("cno_connection_made", <<cno_connection_init("SERVER"), "HTTP2">>))

PipeToServer(n) ==
   /\ PipeRunning
   /\ n \in 1..Len(acc)
   /\ twin' = <<Call("cno_connection_data_received", <<Begin(twin[1], {}, "crash"), Take(acc, n)>>)>>
   /\ acc' = Drop(acc, n)
   /\ rest' = rest \o Wire(twin'[1].cb)
   /\ rt' = rt \o Logged("server", twin'[1].cb)
   /\ steps' = steps + 1
   /\ UNCHANGED <<conn, mon, enc, dec>>

PipeToClient(n) ==
   /\ PipeRunning
   /\ n \in 1..Len(rest)
   /\ conn' = Call("cno_connection_data_received", <<Begin(conn, {}, "crash"), Take(rest, n)>>)
   /\ rest' = Drop(rest, n)
   /\ acc' = acc \o Wire(conn'.cb)
   /\ rt' = rt \o Logged("client", conn'.cb)
   /\ steps' = steps + 1
   /\ UNCHANGED <<mon, twin, enc, dec>>

Requests ==
   {i \in 1..Len(rt) : rt[i].side = "client" /\ rt[i].ev = "write_message"}

Has(side, ev, id) ==
   \E i \in 1..Len(rt) : rt[i].side = side /\ rt[i].ev = ev /\ rt[i].id = id

(* the client asks: GET / on the next stream, no body *)
PipeRequested(id, msg) ==
   ClientCalled(Call("cno_write_message", <<Begin(conn, {}, "crash"), id, msg, TRUE>>),
                <<Wrote("client", "write_message", id, msg, 0)>>)

PipeAsk(headers) ==
   /\ PipeRunning
   /\ Cardinality(Requests) < MaxRequests
   /\ PipeRequested(cno_connection_next_stream(conn), PipeRequest(headers))

(* the server answers a request it has got whole: the head ... *)
PipeAnswerHead(id) ==
   /\ PipeRunning
   /\ Has("server", "on_message_end", id)
   /\ ~Has("server", "write_message", id)
   /\ ServerCalled(Call("cno_write_message", <<Begin(twin[1], {}, "crash"), id, PipeResponse, FALSE>>),
                   <<Wrote("server", "write_message", id, PipeResponse, 0)>>)

(* ... and the body, which ends the stream *)
PipeAnswerBody(id, size) ==
   /\ PipeRunning
   /\ Has("server", "write_message", id)
   /\ ~Has("server", "write_data", id)
   /\ ServerCalled(Call("cno_write_data", <<Begin(twin[1], {}, "crash"), id, size, TRUE>>),
                   <<Wrote("server", "write_data", id, NoMsg, size)>>)

PipeChunks(s) ==
   {Len(s), 9} \cap 1..Len(s)

PipeNext ==
   \/ PipeMade
   \/ \E n \in PipeChunks(acc) : PipeToServer(n)
   \/ \E n \in PipeChunks(rest) : PipeToClient(n)
   \/ \E headers \in {AuthorityOnly, WithScheme} : PipeAsk(headers)
   \/ \E id \in 1..(2 * MaxRequests) : PipeAnswerHead(id)
   \/ \E id \in 1..(2 * MaxRequests), size \in BodySizes : PipeAnswerBody(id, size)

SpecPipe == Init /\ [][PipeNext]_vars

(* what one application saw of, or wrote to, stream id, in order *)
RECURSIVE LogOf(_, _, _)
LogOf(log, side, id) ==
   IF log = <<>> THEN <<>>
   ELSE (IF Head(log).side = side /\ Head(log).id = id /\ Head(log).ev \in MessageCallbacks
         THEN <<Head(log)>> ELSE <<>>)
        \o LogOf(Tail(log), side, id)

RECURSIVE SizeSum(_)
SizeSum(log) ==
   IF log = <<>> THEN 0 ELSE Head(log).size + SizeSum(Tail(log))

(* the body the server wrote on stream id *)
BodyOf(id) ==
   LET i == CHOOSE i \in 1..Len(rt) :
               rt[i].side = "server" /\ rt[i].ev = "write_data" /\ rt[i].id = id
   IN  rt[i].size

(* the requests that carry the headers *)
Asked(headers) ==
   {i \in Requests : rt[i].msg.headers = headers}

Delivered(i) ==
   acc = <<>>

Answered(i) ==
   /\ Has("server", "write_data", rt[i].id)
   /\ rest = <<>>

(* nothing is on its way, and every request was answered or refused *)
PipeQuiet ==
   /\ twin # <<>>
   /\ acc = <<>> /\ rest = <<>>
   /\ Requests # {}
   /\ \A i \in Requests :
         \/ Has("server", "write_data", rt[i].id)
         \/ ~Has("server", "on_message_start", rt[i].id)

ServerSawRequest(id) ==
   LET saw == LogOf(rt, "server", id)
   IN  /\ Cardinality({i \in 1..Len(saw) : saw[i].ev = "on_message_start"}) = 1
       /\ saw[1].ev = "on_message_start"
       /\ saw[1].msg.method = STR_GET
       /\ saw[1].msg.path = STR_SLASH

ClientSawResponse(id) ==
   LET saw == LogOf(rt, "client", id)
       n   == Len(saw)
   IN  /\ n >= 2
       /\ saw[1].ev = "on_message_start"
       /\ saw[1].msg.code = 200
       /\ \A i \in 2..(n - 1) : saw[i].ev = "on_message_data"
       /\ SizeSum(SubSeq(saw, 2, n - 1)) = BodyOf(id)
       /\ saw[n].ev = "on_message_end"

NoStreams(c) ==
   /\ c.stream_count[CNO_LOCAL] = 0
   /\ c.stream_count[CNO_REMOTE] = 0

(* the exchange for the requests that carry the headers: no call fails;    *)
(* once the request has reached the server it has fired exactly one        *)
(* on_message_start, with GET and /; once the answer has reached the       *)
(* client it has got 200, the bytes of the body and then on_message_end    *)
Echo(headers) ==
   /\ twin # <<>> => Ok(conn) /\ Ok(twin[1])
   /\ \A i \in Asked(headers) :
         /\ Delivered(i) => ServerSawRequest(rt[i].id)
         /\ Answered(i) => ClientSawResponse(rt[i].id)

MaxApiSteps == 5

ApiCodes == {100, 200}

ApiMessage(code) ==
   [code |-> code, method |-> STR_GET, path |-> STR_SLASH, headers |-> <<>>]

RequestHeaders(flags) ==
   WireFrame(CNO_FRAME_HEADERS, flags, 1, RequestBlock)

ApiInputs(c) ==
   IF c.state \in {"READY", "READY_NO_SETTINGS", "PREFACE", "INIT"}
   THEN IF c.client = 1
        THEN {SettingsFrame(<<>>),
              WireFrame(CNO_FRAME_HEADERS, CNO_FLAG_END_HEADERS, 1, ResponseBlock)}
        ELSE {CNO_PREFACE \o SettingsFrame(<<>>)
                 \o RequestHeaders(CNO_FLAG_END_HEADERS),
              CNO_PREFACE \o SettingsFrame(Setting(enable_push, 0))
                 \o RequestHeaders(CNO_FLAG_END_HEADERS + CNO_FLAG_END_STREAM),
              SettingsFrame(Setting(enable_push, 0)),
              SettingsFrame(Setting(max_concurrent_streams, 1)),
              RequestHeaders(CNO_FLAG_END_HEADERS)}
   ELSE IF c.client = 1
   THEN {H1Head(6), H1Head(7), STR_ab}
   ELSE {H1Head(1), H1Head(2), H1Head(4), STR_ab}

ApiRunning ==
   /\ steps < MaxApiSteps
   /\ conn.rc \notin {"TRANSPORT", "CRASH"}

(* the call returned c; acc keeps the call and its arguments, rest the     *)
(* mode in which cno_connection_lost last returned OK                      *)
ApiCalled(c, call) ==
   /\ conn' = [c EXCEPT !.fail = {}, !.ub = "crash"]
   /\ mon' = ObserveAll(mon, c.cb, c.fail)
   /\ steps' = steps + 1
   /\ acc' = call
   /\ rest' = IF call = <<"lost">> /\ Ok(c)
              THEN IF cno_connection_is_http2(conn) THEN <<"HTTP2">> ELSE <<"HTTP1">>
              ELSE rest
   /\ UNCHANGED <<twin, enc, dec, rt>>

ApiMade(version) ==
   /\ ApiRunning
   /\ steps = 0
   /\ version = "HTTP2" => ~conn.on_upgrade
   /\ ApiCalled(Call("cno_connection_made", <<Begin(conn, {}, "crash"), version>>),
                <<"made", version>>)

ApiReceived(data) ==
   /\ ApiRunning
   /\ ApiCalled(Call("cno_connection_data_received", <<Begin(conn, {}, "crash"), data>>),
                <<"data_received", data>>)

ApiWriteMessage(stream, code, final) ==
   /\ ApiRunning
   /\ ApiCalled(Call("cno_write_message", <<Begin(conn, {}, "crash"), stream, ApiMessage(code), final>>),
                <<"write_message", stream, code, final>>)

ApiWriteData(stream, length, final) ==
   /\ ApiRunning
   /\ ApiCalled(Call("cno_write_data", <<Begin(conn, {}, "crash"), stream, length, final>>),
                <<"write_data", stream, length, final>>)

ApiWritePush(stream) ==
   /\ ApiRunning
   /\ ApiCalled(Call("cno_write_push", <<Begin(conn, {}, "crash"), stream, PushMessage>>),
                <<"write_push", stream>>)

ApiLost ==
   /\ ApiRunning
   /\ steps > 0
   /\ ApiCalled(Call("cno_connection_lost", <<Begin(conn, {}, "crash")>>), <<"lost">>)

ApiNext ==
   \/ \E version \in {"HTTP1", "HTTP2"} : ApiMade(version)
   \/ \E data \in ApiInputs(conn) : ApiReceived(data)
   \/ \E stream \in 1..2, code \in ApiCodes, final \in BOOLEAN :
         ApiWriteMessage(stream, code, final)
   \/ \E stream \in 1..2, final \in BOOLEAN : ApiWriteData(stream, 2, final)
   \/ \E stream \in 1..2 : ApiWritePush(stream)
   \/ ApiLost

SpecApi == Init /\ [][ApiNext]_vars

STR_101 == <<49, 48, 49>>

(* the bytes are a 101 response, the preface and one SETTINGS frame *)
UpgradeBytes(w) ==
   /\ Take(w, Len(STR_HTTP11_SP) + Len(STR_101)) = STR_HTTP11_SP \o STR_101
   /\ \E i \in 1..Len(w) :
         /\ Len(w) >= i + Len(CNO_PREFACE) + 8
         /\ SubSeq(w, i, i + Len(CNO_PREFACE) - 1) = CNO_PREFACE
         /\ w[i + Len(CNO_PREFACE) + 3] = CNO_FRAME_SETTINGS
         /\ Len(w) = i + Len(CNO_PREFACE) + 8
                        + read3(SubSeq(w, i + Len(CNO_PREFACE), i + Len(CNO_PREFACE) + 2))

(* a server that waits for a request and may be upgraded to h2c *)
Upgradable(c) ==
   /\ c.client = 0
   /\ c.state = "HTTP1_READY"
   /\ "DISALLOW_H2_UPGRADE" \notin c.flags
   /\ c.buffer = <<>>
   /\ cno_stream_find(c, 1) => "HEADERS" \in Stream(c, 1).accept

(* C12: a server in HTTP1_READY that receives a request with               *)
(* `upgrade: h2c` returns OK from cno_connection_data_received, has        *)
(* written a 101 response, the preface and a SETTINGS frame, in this       *)
(* order, and is in HTTP1_READING_UPGRADE, or in PREFACE once the body of  *)
(* the request has ended.                                                  *)
C12_UpgradeToH2c ==
   [][Upgradable(conn) /\ acc' = <<"data_received", H1Head(4)>> =>
         /\ Ok(conn')
         /\ UpgradeBytes(Wire(conn'.cb))
         /\ conn'.state \in {"HTTP1_READING_UPGRADE", "PREFACE"}]_vars

(* the connection without the results of the last call *)
Settled(c) ==
   [c EXCEPT !.cb = <<>>, !.rc = CNO_OK, !.ret = 0]

(* the call failed with this error, fired no callback and changed nothing *)
Refused(kind) ==
   /\ conn'.rc = kind
   /\ conn'.cb = <<>>
   /\ Settled(conn') = Settled(conn)

Informational(code) ==
   100 <= code /\ code < 200

NotWritable(c, stream) ==
   /\ c.client = 0
   /\ ~cno_stream_find(c, stream) \/ "WRITE_HEADERS" \notin Stream(c, stream).accept

(* C18: cno_write_message fails, writing nothing and changing no stream   *)
(* and no connection state, with DISCONNECT when the state is UNDEFINED,   *)
(* with ASSERTION when the message is informational and final, and with    *)
(* INVALID_STREAM when a server names a stream that does not exist or      *)
(* lacks WRITE_HEADERS.  Where two of the conditions hold at once the      *)
(* call can return one error only: the checks are made in this order.      *)
C18_WriteMessageRefused ==
   [][\A stream \in 1..2, code \in ApiCodes, final \in BOOLEAN :
         acc' = <<"write_message", stream, code, final>> =>
            /\ conn.state = "UNDEFINED" => Refused("DISCONNECT")
            /\ (conn.state # "UNDEFINED" /\ Informational(code) /\ final)
                  => Refused("ASSERTION")
            /\ (conn.state # "UNDEFINED" /\ ~(Informational(code) /\ final)
                   /\ NotWritable(conn, stream))
                  => Refused("INVALID_STREAM")]_vars

(* a server was refused a second head on a stream that accepts data only *)
C18_Witness ==
   /\ Len(acc) = 4 /\ acc[1] = "write_message"
   /\ conn.client = 0
   /\ conn.rc = "INVALID_STREAM"
   /\ cno_stream_find(conn, acc[2])
   /\ "WRITE_DATA" \in Stream(conn, acc[2]).accept

SentFrames(c) ==
   SelectSeq(c.cb, LAMBDA e : e.ev = "on_frame_send")

MessageEvents(c) ==
   SelectSeq(c.cb, LAMBDA e : e.ev \in {"on_message_start", "on_message_data",
                                        "on_message_trail", "on_message_end"})

(* the call from c to d created the stream child, promised on parent *)
Pushed(c, d, parent, child) ==
   /\ Ok(d)
   /\ child % 2 = 0
   /\ child > c.last_stream[CNO_LOCAL]
   /\ \A id \in LiveOf(c, CNO_LOCAL) : child > id
   /\ LiveStreams(d) = LiveStreams(c) \cup {child}
   /\ d.stream_count[CNO_LOCAL] = c.stream_count[CNO_LOCAL] + 1
   /\ d.stream_count[CNO_REMOTE] = c.stream_count[CNO_REMOTE]
   /\ Stream(d, child).accept = {"WRITE_HEADERS"}
   /\ Len(SentFrames(d)) = 1
   /\ SentFrames(d)[1].frame.type = CNO_FRAME_PUSH_PROMISE
   /\ SentFrames(d)[1].frame.stream = parent
   /\ Take(SentFrames(d)[1].frame.payload, 4) = Pack(child, 4)
   /\ Len(MessageEvents(d)) = 2
   /\ MessageEvents(d)[1].ev = "on_message_start" /\ MessageEvents(d)[1].id = child
   /\ MessageEvents(d)[2].ev = "on_message_end" /\ MessageEvents(d)[2].id = child

(* an HTTP/2 server whose stream parent may carry a promise *)
MayPush(c, parent) ==
   /\ c.client = 0
   /\ cno_connection_is_http2(c)
   /\ c.settings[CNO_REMOTE][enable_push] = 1
   /\ cno_stream_find(c, parent)
   /\ "WRITE_PUSH" \in Stream(c, parent).accept

PushOff(c, d) ==
   (c.client = 0 /\ cno_connection_is_http2(c)
       /\ c.settings[CNO_REMOTE][enable_push] = 0)
      => (Ok(d) /\ d.cb = <<>> /\ Settled(d) = Settled(c))

PushOnClient(c, d) ==
   (c.client = 1 /\ c.state # "UNDEFINED") => d.rc = "ASSERTION"

ApiCalls == {"data_received", "write_message", "write_data", "write_push"}

EndsOf(c, id) ==
   SelectSeq(c.cb, LAMBDA e : e.ev = "on_stream_end" /\ e.id = id)

(* the call from c to d closed the connection and every stream of it *)
Gone(c, d) ==
   /\ d.state = "UNDEFINED"
   /\ LiveStreams(d) = {}
   /\ d.stream_count[CNO_LOCAL] = 0 /\ d.stream_count[CNO_REMOTE] = 0
   /\ \A id \in LiveStreams(c) : Len(EndsOf(d, id)) = 1
   /\ \A i \in 1..Len(d.cb) :
         d.cb[i].ev = "on_stream_end" => d.cb[i].id \in LiveStreams(c)

DataFrames(c) ==
   SelectSeq(c.cb, LAMBDA e : e.ev = "on_frame_send" /\ e.frame.type = CNO_FRAME_DATA)

RECURSIVE DataBytes(_)
DataBytes(fs) ==
   IF fs = <<>> THEN 0 ELSE Head(fs).frame.size + DataBytes(Tail(fs))

EndsStream(fs) ==
   \E i \in 1..Len(fs) : HasFlag(fs[i].frame.flags, CNO_FLAG_END_STREAM)

(* stream id of c may carry data over HTTP/2 *)
MayWriteData(c, id) ==
   /\ cno_connection_is_http2(c)
   /\ cno_stream_find(c, id)
   /\ "WRITE_DATA" \in Stream(c, id).accept

(* what the windows of c let through of length bytes on stream id *)
Consumed(c, id, length) ==
   Min(length, Min(c.window_send, Stream(c, id).window_send))

(* the call from c to d wrote n of the length bytes asked for *)
WroteData(c, d, id, length, final, n) ==
   /\ Ok(d)
   /\ d.ret = n
   /\ DataBytes(DataFrames(d)) = n
   /\ (0 < n /\ n <= c.settings[CNO_REMOTE][max_frame_size]) => Len(DataFrames(d)) = 1
   /\ \A i \in 1..Len(DataFrames(d)) : DataFrames(d)[i].frame.stream = id
   /\ d.window_send = c.window_send - n
   /\ cno_stream_find(d, id) => Stream(d, id).window_send = Stream(c, id).window_send - n
   /\ EndsStream(DataFrames(d)) <=> (final /\ n = length)
   /\ (final /\ n = length) =>
         \/ ~cno_stream_find(d, id)
         \/ Stream(d, id).accept \cap {"WRITE_HEADERS", "WRITE_DATA"} = {}
   /\ n < length =>
         /\ cno_stream_find(d, id)
         /\ "WRITE_DATA" \in Stream(d, id).accept
   /\ (n = 0 /\ n < length) => d.cb = <<>>

(* C17: over HTTP/2, cno_write_data of length bytes on a stream with       *)
(* WRITE_DATA consumes n = min(length, conn.window_send,                   *)
(* stream.window_send) bytes: it returns n, the DATA it writes carries n   *)
(* bytes, both send windows go down by n, END_STREAM is set and the        *)
(* outbound half closed exactly when final was asked for and n = length,   *)
(* the stream keeps WRITE_DATA when n < length, and nothing is written     *)
(* when n = 0 for a longer write.                                          *)
C17_WriteDataWithinWindows ==
   [][\A length \in FlowLengths, final \in BOOLEAN :
         (acc' = <<"write_data", length, final>> /\ MayWriteData(conn, 1)) =>
            WroteData(conn, conn', 1, length, final, Consumed(conn, 1, length))]_vars

(* a write longer than the window of the connection was cut short: the     *)
(* call returned fewer bytes than asked for and left the window empty      *)
C17_Witness ==
   /\ Len(acc) = 3 /\ acc[1] = "write_data"
   /\ Ok(conn)
   /\ conn.window_send = 0
   /\ cno_stream_find(conn, 1)
   /\ conn.ret < acc[2]
   /\ conn.ret > 0

(***************************************************************************)
(* Single frames: an HTTP/2 connection receives padded DATA, header blocks *)
(* that fail validation and headers of frames above the limit.             *)
(***************************************************************************)
MaxFrameSteps == 5

(* the flags the application chooses before cno_connection_made *)
FrameFlags == {{}, {"MANUAL_FLOW_CONTROL"}}

(* payload lengths and pad lengths of DATA frames; S3 is 10 and 4 *)
DataLengths == {1, 2, 10}

PadLengths == {0, 1, 4}

(* a padded payload: the pad length, the content, the padding *)
Padded(length, pad) ==
   <<pad>> \o [i \in 1..(length - pad - 1) |-> 96 + i] \o [i \in 1..pad |-> 0]

PaddedData(id, length, pad) ==
   WireFrame(CNO_FRAME_DATA, CNO_FLAG_PADDED, id, Padded(length, pad))

(* request blocks that fail validation: a pseudo-header after a regular    *)
(* header (:method, :scheme, cookie: x, :path, the cookie a literal with   *)
(* incremental indexing; and the same with accept-encoding from the static *)
(* table), no :path, :method twice, a response pseudo-header               *)
BadBlocks ==
   {<<130, 134, 96, 1, 120, 132>>, <<130, 134, 144, 132>>, <<130, 134>>,
    <<130, 131, 134, 132>>, <<130, 134, 132, 136>>}

GoodBlocks ==
   {RequestBlock, <<130, 134, 132, 144>>}

(* the header of a frame that declares m bytes of payload *)
BigHeader(type, id, m) ==
   FrameHeader(m, Frame(type, 0, id, <<>>))

BigTypes == {CNO_FRAME_DATA, CNO_FRAME_HEADERS, CNO_FRAME_SETTINGS, CNO_FRAME_UNKNOWN}

(* what the peer sends, with what the frame is: acc is <<kind, ...>> *)
FrameInputs(c) ==
   IF c.state = "PREFACE"
   THEN {[data |-> CNO_PREFACE \o SettingsFrame(<<>>), is |-> <<"preface">>],
         [data |-> CNO_PREFACE, is |-> <<"preface">>]}
   ELSE {[data |-> SettingsFrame(<<>>), is |-> <<"settings">>]}
        \cup UNION {{[data |-> PaddedData(1, length, pad),
                       is |-> <<"data", 1, length, pad>>] :
                         pad \in {p \in PadLengths : p + 1 <= length}} :
                     length \in DataLengths}
        \cup {[data |-> WireFrame(CNO_FRAME_DATA, CNO_FLAG_PADDED, 1, <<1>>),
               is |-> <<"overpadded">>]}
        \cup {[data |-> BigHeader(type, id, c.settings[CNO_LOCAL][max_frame_size] + 1),
               is |-> <<"big", type, id>>] : type \in BigTypes, id \in 0..1}
        \cup (IF c.client = 1
              THEN {[data |-> WireFrame(CNO_FRAME_HEADERS, CNO_FLAG_END_HEADERS, 1,
                                        ResponseBlock),
                     is |-> <<"response">>]}
              ELSE {[data |-> WireFrame(CNO_FRAME_HEADERS, CNO_FLAG_END_HEADERS, id, block),
                     is |-> <<"request", id>>] : id \in {1, 3}, block \in GoodBlocks}
                   \cup
                   {[data |-> WireFrame(CNO_FRAME_HEADERS, CNO_FLAG_END_HEADERS, id, block),
                     is |-> <<"bad", id>>] : id \in {1, 3}, block \in BadBlocks})

FrameRunning ==
   /\ steps < MaxFrameSteps
   /\ conn.rc \notin Fatal

FrameCalled(c, call) ==
   /\ conn' = [c EXCEPT !.fail = {}, !.ub = "crash"]
   /\ mon' = ObserveAll(mon, c.cb, c.fail)
   /\ steps' = steps + 1
   /\ acc' = call
   /\ UNCHANGED <<twin, rest, enc, dec, rt>>

(* the application sets conn->flags, then calls cno_connection_made *)
FrameMade(flags) ==
   /\ FrameRunning
   /\ steps = 0
   /\ ~conn.on_upgrade
   /\ FrameCalled(Call("cno_connection_made", <<Begin([conn EXCEPT !.flags = flags], {}, "crash"),
                                      "HTTP2">>),
                  <<"made">>)

FrameReceived(in) ==
   /\ FrameRunning
   /\ conn.state # "UNDEFINED"
   /\ FrameCalled(Call("cno_connection_data_received", <<Begin(conn, {}, "crash"), in.data>>), in.is)

(* the request of a client, on which the response and its data arrive *)
FrameWriteMessage ==
   /\ FrameRunning
   /\ conn.state # "UNDEFINED"
   /\ conn.client = 1
   /\ FrameCalled(Call("cno_write_message", <<Begin(conn, {}, "crash"), 1, AppMessage(conn), FALSE>>),
                  <<"write_message">>)

(* a local max_frame_size one above the standard one *)
WideSettings ==
   [CNO_SETTINGS_INITIAL EXCEPT ![max_frame_size] = CNO_SETTINGS_STANDARD[max_frame_size] + 1]

FrameConfig ==
   /\ FrameRunning
   /\ conn.settings[CNO_LOCAL] # WideSettings
   /\ FrameCalled(Call("cno_connection_set_config", <<Begin(conn, {}, "crash"), WideSettings>>),
                  <<"set_config">>)

FrameNext ==
   \/ \E flags \in FrameFlags : FrameMade(flags)
   \/ \E in \in FrameInputs(conn) : FrameReceived(in)
   \/ FrameWriteMessage
   \/ FrameConfig

SpecFrame == Init /\ [][FrameNext]_vars

(* the connection takes frames and nothing is buffered or awaited *)
TakesFrames(c) ==
   /\ c.state \in {"READY", "READY_NO_SETTINGS"}
   /\ c.buffer = <<>>
   /\ c.continued_stream = 0

FiredOf(c, ev) ==
   SelectSeq(c.cb, LAMBDA e : e.ev = ev)

(* on_frame_send of a WINDOW_UPDATE of n for id *)
SentUpdate(id, n) ==
   Event("on_frame_send", id, <<>>, NoMsg,
         Frame(CNO_FRAME_WINDOW_UPDATE, 0, id, Pack(n, 4)), 0)

(* C13: an inbound DATA frame without END_STREAM, of payload length L > 0, *)
(* padded with pad length P, P + 1 <= L, on a stream that accepts DATA:    *)
(* the engine writes WINDOW_UPDATE of L for the connection, gives the      *)
(* L - P - 1 content bytes to on_message_data and, unless flow control is  *)
(* manual, writes WINDOW_UPDATE of L for the stream.                       *)
C13_PaddedDataAcknowledged ==
   [][\A length \in DataLengths, pad \in PadLengths :
         (/\ acc' = <<"data", 1, length, pad>>
          /\ TakesFrames(conn)
          /\ cno_stream_find(conn, 1)
          /\ "DATA" \in Stream(conn, 1).accept) =>
            /\ Ok(conn')
            /\ Len(FiredOf(conn', "on_message_data")) = 1
            /\ FiredOf(conn', "on_message_data")[1].id = 1
            /\ FiredOf(conn', "on_message_data")[1].data
                  = [i \in 1..(length - pad - 1) |-> 96 + i]
            /\ SentFrames(conn')
                  = <<SentUpdate(0, length)>>
                    \o (IF "MANUAL_FLOW_CONTROL" \in conn.flags THEN <<>>
                        ELSE <<SentUpdate(1, length)>>)]_vars

(* S3 with automatic flow control: 10 bytes with 4 of padding gave the     *)
(* application 5 bytes and two WINDOW_UPDATE frames were written           *)
C13_Witness ==
   /\ acc = <<"data", 1, 10, 4>>
   /\ Ok(conn)
   /\ "MANUAL_FLOW_CONTROL" \notin conn.flags
   /\ Len(FiredOf(conn, "on_message_data")) = 1
   /\ Len(FiredOf(conn, "on_message_data")[1].data) = 5
   /\ Len(SentFrames(conn)) = 2

(* C15: an initial HEADERS block that fails validation is answered with    *)
(* RST_STREAM(PROTOCOL_ERROR) and the stream is destroyed: it is not in    *)
(* the table, stream_count is back to what it was and on_stream_end has    *)
(* fired; on_message_start does not fire and data_received returns OK.     *)
C15_InvalidHeadersDestroyStream ==
   [][\A id \in {1, 3} :
         (/\ acc' = <<"bad", id>>
          /\ TakesFrames(conn)
          /\ conn.state = "READY"
          /\ ~cno_stream_find(conn, id)
          /\ id > conn.last_stream[CNO_REMOTE]) =>
            /\ Ok(conn')
            /\ WroteFrame(conn', CNO_FRAME_RST_STREAM, id, Pack(CNO_RST_PROTOCOL_ERROR, 4))
            /\ FiredOf(conn', "on_message_start") = <<>>
            /\ ~cno_stream_find(conn', id)
            /\ conn'.stream_count = conn.stream_count
            /\ Len(EndsOf(conn', id)) = 1]_vars

(* only the frames the engine writes were seen by the application *)
OnlyGoaway(c, code) ==
   /\ WroteGoaway(c, code)
   /\ Len(SentFrames(c)) = 1
   /\ \A i \in 1..Len(c.cb) : c.cb[i].ev \in {"on_frame_send", "on_write"}

(* C16: in READY and in READY_NO_SETTINGS, once the 9 bytes of the header  *)
(* of a frame that declares more than the local max_frame_size are in the  *)
(* buffer, the engine writes GOAWAY(FRAME_SIZE_ERROR) and data_received    *)
(* returns TRANSPORT; on_frame does not fire, nor any callback other than  *)
(* on_frame_send and on_write for the GOAWAY.                              *)
C16_OversizedFrameRefused ==
   [][\A type \in BigTypes, id \in 0..1 :
         (/\ acc' = <<"big", type, id>>
          /\ conn.state \in {"READY", "READY_NO_SETTINGS"}
          /\ conn.buffer = <<>>) =>
            /\ conn'.rc = "TRANSPORT"
            /\ OnlyGoaway(conn', CNO_RST_FRAME_SIZE_ERROR)]_vars

(* the header of a frame of max_frame_size + 1 bytes was refused after the *)
(* local max_frame_size had been raised by one                             *)
C16_Witness ==
   /\ Len(acc) = 3 /\ acc[1] = "big"
   /\ conn.rc = "TRANSPORT"
   /\ conn.settings[CNO_LOCAL] = WideSettings
   /\ conn.state = "READY"
   /\ WroteGoaway(conn, CNO_RST_FRAME_SIZE_ERROR)

(***************************************************************************)
(* cno_connection_set_config in every state of the connection.             *)
(***************************************************************************)
MaxConfigSteps == 4

(* settings that differ from the initial local ones in these fields *)
ConfigChange(fields) ==
   [i \in 1..6 |->
      IF i \notin fields THEN CNO_SETTINGS_INITIAL[i]
      ELSE IF i = enable_push THEN 0
      ELSE IF i = max_frame_size THEN 16777215
      ELSE CNO_SETTINGS_INITIAL[i] - 1]

ConfigFields ==
   {{}, {header_table_size}, {enable_push}, {max_concurrent_streams},
    {initial_window_size}, {max_frame_size}, {max_header_list_size},
    {enable_push, max_frame_size}, 1..6}

(* settings that cno_connection_set_config refuses *)
ConfigRefused ==
   {[CNO_SETTINGS_INITIAL EXCEPT ![enable_push] = 2],
    [CNO_SETTINGS_INITIAL EXCEPT ![enable_push] = UINT32_MAX],
    [CNO_SETTINGS_INITIAL EXCEPT ![max_frame_size] = 16383],
    [CNO_SETTINGS_INITIAL EXCEPT ![max_frame_size] = 16777216],
    [ConfigChange({header_table_size}) EXCEPT ![max_frame_size] = 0],
    [ConfigChange(1..6) EXCEPT ![enable_push] = 2]}

ConfigSettings ==
   {ConfigChange(fields) : fields \in ConfigFields} \cup ConfigRefused

ConfigInputs(c) ==
   IF c.state = "PREFACE" THEN {CNO_PREFACE \o SettingsFrame(<<>>), CNO_PREFACE}
   ELSE IF cno_connection_is_http2(c) THEN {SettingsFrame(<<>>)}
   ELSE IF c.client = 1 THEN {H1Head(6)}
   ELSE {H1Head(1)}

ConfigRunning ==
   /\ steps < MaxConfigSteps
   /\ conn.rc \notin Fatal

ConfigCalled(c, call) ==
   /\ conn' = [c EXCEPT !.fail = {}, !.ub = "crash"]
   /\ mon' = ObserveAll(mon, c.cb, c.fail)
   /\ steps' = steps + 1
   /\ acc' = call
   /\ UNCHANGED <<twin, rest, enc, dec, rt>>

ConfigMade(version) ==
   /\ ConfigRunning
   /\ conn.state = "UNDEFINED"
   /\ version = "HTTP2" => ~conn.on_upgrade
   /\ ConfigCalled(Call("cno_connection_made", <<Begin(conn, {}, "crash"), version>>), <<"made">>)

ConfigReceived(data) ==
   /\ ConfigRunning
   /\ conn.state # "UNDEFINED"
   /\ ConfigCalled(Call("cno_connection_data_received", <<Begin(conn, {}, "crash"), data>>),
                   <<"data_received">>)

ConfigSet(settings) ==
   /\ ConfigRunning
   /\ ConfigCalled(Call("cno_connection_set_config", <<Begin(conn, {}, "crash"), settings>>),
                   <<"set_config", settings>>)

ConfigLost ==
   /\ ConfigRunning
   /\ conn.state # "UNDEFINED"
   /\ ConfigCalled(Call("cno_connection_lost", <<Begin(conn, {}, "crash")>>), <<"lost">>)

ConfigNext ==
   \/ \E version \in {"HTTP1", "HTTP2"} : ConfigMade(version)
   \/ \E data \in ConfigInputs(conn) : ConfigReceived(data)
   \/ \E settings \in ConfigSettings : ConfigSet(settings)
   \/ ConfigLost

SpecConfig == Init /\ [][ConfigNext]_vars

ValidConfig(settings) ==
   /\ settings[enable_push] \in {0, 1}
   /\ 16384 <= settings[max_frame_size]
   /\ settings[max_frame_size] <= 16777215

(* the entries of a SETTINGS payload, as pairs of identifier and value *)
RECURSIVE SettingsEntries(_)
SettingsEntries(payload) ==
   IF Len(payload) < 6 THEN <<>>
   ELSE <<<<read2(payload), read4(Drop(payload, 2))>>>>
           \o SettingsEntries(Drop(payload, 6))

(* the frames written are one SETTINGS frame without ACK that holds one    *)
(* entry for each of the fields in which current differs from previous     *)
WroteDelta(c, previous, current) ==
   /\ Len(SentFrames(c)) = 1
   /\ LET frame == SentFrames(c)[1].frame
          entries == SettingsEntries(frame.payload)
          changed == {i \in 1..6 : previous[i] # current[i]}
      IN  /\ frame.type = CNO_FRAME_SETTINGS
          /\ frame.stream = 0
          /\ frame.flags = 0
          /\ Len(frame.payload) = 6 * Cardinality(changed)
          /\ Len(entries) = Cardinality(changed)
          /\ Range(entries) = {<<i, current[i]>> : i \in changed}

(* C21: cno_connection_set_config with enable_push outside {0, 1} or       *)
(* max_frame_size outside [16384, 16777215] returns ASSERTION and leaves   *)
(* the local settings, the limit of the decoder and the output untouched;  *)
(* a valid call stores the settings and, when the connection is in HTTP/2  *)
(* mode past INIT, writes exactly one SETTINGS frame that holds one entry  *)
(* for exactly the fields whose value differs from the previous local      *)
(* settings, and writes nothing otherwise.                                 *)
C21_SetConfig ==
   [][\A settings \in ConfigSettings :
         acc' = <<"set_config", settings>> =>
            IF ~ValidConfig(settings) THEN Refused("ASSERTION")
            ELSE /\ Ok(conn')
                 /\ conn'.settings[CNO_LOCAL] = settings
                 /\ conn'.decoder.limit_upper = settings[header_table_size]
                 /\ IF cno_connection_is_http2(conn) /\ conn.state # "INIT"
                    THEN WroteDelta(conn', conn.settings[CNO_LOCAL], settings)
                    ELSE conn'.cb = <<>>]_vars

(* a second configuration of an HTTP/2 connection changed two fields *)
C21_Witness ==
   /\ Len(acc) = 2 /\ acc[1] = "set_config"
   /\ Ok(conn)
   /\ conn.state = "READY"
   /\ Len(SentFrames(conn)) = 1
   /\ Len(SettingsEntries(SentFrames(conn)[1].frame.payload)) = 2
   /\ acc[2] # ConfigChange({enable_push, max_frame_size})

(* the stream accepts nothing from the peer and nothing from the           *)
(* application, whatever other bits are set                                *)
BothMasksEmpty(c, id) ==
   Stream(c, id).accept \cap (CNO_ACCEPT_INBOUND \cup CNO_ACCEPT_OUTBOUND) = {}

(* C22: between calls of the interface no stream of the table has both its *)
(* INBOUND mask and its OUTBOUND mask empty, whatever other bits remain    *)
(* set; a stream that a call removes from the table has on_stream_end      *)
(* fired in that call.                                                     *)
C22_EmptyMasksDestroyStream ==
   /\ [](\A id \in LiveStreams(conn) : ~BothMasksEmpty(conn, id))
   /\ [][\A id \in LiveStreams(conn) \ LiveStreams(conn') :
            \E i \in 1..Len(conn'.cb) :
               conn'.cb[i].ev = "on_stream_end" /\ conn'.cb[i].id = id]_vars

(***************************************************************************)
(* SETTINGS frames from the peer: valid ones, ones that fail validation,   *)
(* acknowledgements.                                                       *)
(***************************************************************************)
MaxSettingsSteps == 4

(* payloads that pass validation in every state; the identifiers 0 and 7   *)
(* are not settings and are skipped                                        *)
GoodSettings ==
   {<<>>,
    Setting(header_table_size, 0),
    Setting(enable_push, 0),
    Setting(max_concurrent_streams, 1),
    Setting(initial_window_size, INT32_MAX),
    Setting(max_frame_size, 16777215),
    Setting(header_table_size, 0) \o Setting(max_frame_size, 16385),
    Setting(0, 2) \o Setting(CNO_SETTINGS_UNDEFINED, 2)}

(* payloads that fail validation, some after fields that are acceptable *)
BadSettings ==
   {Setting(enable_push, 2),
    Setting(initial_window_size, INT32_MIN),
    Setting(max_frame_size, 16383),
    Setting(max_frame_size, 16777216),
    Setting(max_frame_size, 0),
    Setting(header_table_size, 0) \o Setting(enable_push, 2),
    Setting(max_concurrent_streams, 1) \o Setting(initial_window_size, UINT32_MAX),
    Setting(max_header_list_size, 0) \o Setting(max_frame_size, 16383)}

SettingsInputs(c) ==
   IF c.state = "PREFACE"
   THEN {[data |-> CNO_PREFACE, is |-> <<"preface">>]}
   ELSE {[data |-> SettingsFrame(payload), is |-> <<"settings", payload>>] :
            payload \in GoodSettings \cup BadSettings}
        \cup {[data |-> WireFrame(CNO_FRAME_SETTINGS, CNO_FLAG_ACK, 0, <<>>),
               is |-> <<"ack">>]}

SettingsRunning ==
   /\ steps < MaxSettingsSteps
   /\ conn.rc \notin Fatal

SettingsCalled(c, call) ==
   /\ conn' = [c EXCEPT !.fail = {}, !.ub = "crash"]
   /\ mon' = ObserveAll(mon, c.cb, c.fail)
   /\ steps' = steps + 1
   /\ acc' = call
   /\ UNCHANGED <<twin, rest, enc, dec, rt>>

SettingsMade ==
   /\ SettingsRunning
   /\ steps = 0
   /\ ~conn.on_upgrade
   /\ SettingsCalled(Call("cno_connection_made", <<Begin(conn, {}, "crash"), "HTTP2">>), <<"made">>)

SettingsReceived(in) ==
   /\ SettingsRunning
   /\ conn.state # "UNDEFINED"
   /\ SettingsCalled(Call("cno_connection_data_received", <<Begin(conn, {}, "crash"), in.data>>), in.is)

SettingsNext ==
   \/ SettingsMade
   \/ \E in \in SettingsInputs(conn) : SettingsReceived(in)

SpecSettings == Init /\ [][SettingsNext]_vars

(* the fields of a SETTINGS payload, applied in order to cfg *)
RECURSIVE Applied(_, _)
Applied(cfg, entries) ==
   IF entries = <<>> THEN cfg
   ELSE Applied(IF Head(entries)[1] \in 1..6
                THEN [cfg EXCEPT ![Head(entries)[1]] = Head(entries)[2]] ELSE cfg,
                Tail(entries))

(* a field is the int32_t of the same bits: the values above 0x7FFFFFFF    *)
(* are the negative ones                                                   *)
ValidRemote(cfg) ==
   /\ cfg[enable_push] \in {0, 1}
   /\ cfg[initial_window_size] >= 0
   /\ 16384 <= cfg[max_frame_size]
   /\ cfg[max_frame_size] <= 16777215

WroteAck(c) ==
   \E i \in 1..Len(c.cb) :
      /\ c.cb[i].ev = "on_frame_send"
      /\ c.cb[i].frame.type = CNO_FRAME_SETTINGS

(* C23: a SETTINGS frame that carries enable_push > 1, initial_window_size *)
(* > 0x7FFFFFFF or max_frame_size outside [16384, 16777215] makes the      *)
(* engine write GOAWAY and return TRANSPORT, write no SETTINGS ACK and     *)
(* fire no on_settings, and leaves the six fields of settings[remote] and  *)
(* the limits of the encoder as they were before the frame.                *)
C23_InvalidSettingsRefused ==
   [][\A payload \in BadSettings :
         (/\ acc' = <<"settings", payload>>
          /\ TakesFrames(conn)) =>
            /\ conn'.rc = "TRANSPORT"
            /\ \E i \in 1..Len(conn'.cb) :
                  /\ conn'.cb[i].ev = "on_frame_send"
                  /\ conn'.cb[i].frame.type = CNO_FRAME_GOAWAY
            /\ ~WroteAck(conn')
            /\ FiredOf(conn', "on_settings") = <<>>
            /\ conn'.settings[CNO_REMOTE] = conn.settings[CNO_REMOTE]
            /\ conn'.encoder = conn.encoder]_vars

(***************************************************************************)
(* The exchange of SETTINGS between two engines joined by a pipe: conn is  *)
(* the client, twin[1] the server, acc the bytes on their way to the       *)
(* server and rest the bytes on their way to the client.  rt is the side   *)
(* that received last and what it was given; steps counts the calls of     *)
(* cno_connection_set_config.                                              *)
(***************************************************************************)
MaxShakeConfigs == 2

ShakeSettings ==
   {ConfigChange(fields) :
       fields \in {{}, {enable_push, max_frame_size}}}

(* the length of what comes first in the pipe: one frame, after the        *)
(* preface if the pipe starts with it                                      *)
FirstUnit(s) ==
   IF Take(s, Len(CNO_PREFACE)) = CNO_PREFACE
   THEN Len(CNO_PREFACE) + 9 + read3(Drop(s, Len(CNO_PREFACE)))
   ELSE 9 + read3(s)

ShakeChunks(s) ==
   IF s = <<>> THEN {} ELSE {Len(s), FirstUnit(s)}

ShakeMade ==
   /\ twin = <<>>
   /\ conn.client = 1
   /\ conn' = Call("cno_connection_made", <<Begin(conn, {}, "crash"), "HTTP2">>)
   /\ twin' = <<Call("cno_connection_made", <<cno_connection_init("SERVER"), "HTTP2">>)>>
   /\ acc' = Wire(conn'.cb)
   /\ rest' = Wire(twin'[1].cb)
   /\ rt' = <<>>
   /\ UNCHANGED <<mon, steps, enc, dec>>

ShakeToServer(n) ==
   /\ twin # <<>>
   /\ twin' = <<Call("cno_connection_data_received", <<Begin(twin[1], {}, "crash"), Take(acc, n)>>)>>
   /\ acc' = Drop(acc, n)
   /\ rest' = rest \o Wire(twin'[1].cb)
   /\ rt' = <<"server", Take(acc, n)>>
   /\ UNCHANGED <<conn, mon, steps, enc, dec>>

ShakeToClient(n) ==
   /\ twin # <<>>
   /\ conn' = Call("cno_connection_data_received", <<Begin(conn, {}, "crash"), Take(rest, n)>>)
   /\ rest' = Drop(rest, n)
   /\ acc' = acc \o Wire(conn'.cb)
   /\ rt' = <<"client", Take(rest, n)>>
   /\ UNCHANGED <<mon, twin, steps, enc, dec>>

ShakeConfigClient(settings) ==
   /\ twin # <<>>
   /\ steps < MaxShakeConfigs
   /\ conn' = Call("cno_connection_set_config", <<Begin(conn, {}, "crash"), settings>>)
   /\ acc' = acc \o Wire(conn'.cb)
   /\ rt' = <<>>
   /\ steps' = steps + 1
   /\ UNCHANGED <<mon, twin, rest, enc, dec>>

ShakeConfigServer(settings) ==
   /\ twin # <<>>
   /\ steps < MaxShakeConfigs
   /\ twin' = <<Call("cno_connection_set_config", <<Begin(twin[1], {}, "crash"), settings>>)>>
   /\ rest' = rest \o Wire(twin'[1].cb)
   /\ rt' = <<>>
   /\ steps' = steps + 1
   /\ UNCHANGED <<conn, mon, acc, enc, dec>>

ShakeDeliver ==
   \/ \E n \in ShakeChunks(acc) : ShakeToServer(n)
   \/ \E n \in ShakeChunks(rest) : ShakeToClient(n)

ShakeNext ==
   \/ ShakeMade
   \/ ShakeDeliver
   \/ \E settings \in ShakeSettings : ShakeConfigClient(settings)
   \/ \E settings \in ShakeSettings : ShakeConfigServer(settings)

SpecShake == Init /\ [][ShakeNext]_vars

(* a delivery is possible when, and only when, a pipe is not empty *)
Deliverable ==
   /\ twin # <<>>
   /\ acc # <<>> \/ rest # <<>>

(* the transport delivers what was written: weak fairness of ShakeDeliver, *)
(* with ENABLED <<ShakeDeliver>>_vars written out as Deliverable           *)
ShakeFair ==
   []<>(~Deliverable) \/ []<><<ShakeDeliver>>_vars

SpecShakeLive == SpecShake /\ ShakeFair

AckFrame ==
   Frame(CNO_FRAME_SETTINGS, CNO_FLAG_ACK, 0, <<>>)

(* what the SETTINGS frames in the bytes ask for, frame by frame: an       *)
(* acknowledgement and on_settings for one without ACK, nothing for one    *)
(* with ACK                                                                *)
RECURSIVE Owed(_)
Owed(s) ==
   IF Len(s) < 9 THEN <<>>
   ELSE IF Take(s, Len(CNO_PREFACE)) = CNO_PREFACE THEN Owed(Drop(s, Len(CNO_PREFACE)))
   ELSE (IF s[4] = CNO_FRAME_SETTINGS /\ s[5] = 0 THEN <<"ack", "on_settings">> ELSE <<>>)
        \o Owed(Drop(s, 9 + read3(s)))

(* what the engine did: the frames it wrote and the on_settings it fired *)
RECURSIVE Paid(_)
Paid(cb) ==
   IF cb = <<>> THEN <<>>
   ELSE (IF Head(cb).ev = "on_settings" THEN <<"on_settings">>
         ELSE IF Head(cb).ev = "on_frame_send"
         THEN IF Head(cb).frame = AckFrame THEN <<"ack">> ELSE <<"frame">>
         ELSE <<>>)
        \o Paid(Tail(cb))

RECURSIVE Repeat(_, _)
Repeat(s, n) ==
   IF n = 0 THEN <<>> ELSE s \o Repeat(s, n - 1)

Receiver(side) ==
   IF side = "server" THEN twin'[1] ELSE conn'

ShakeQuiet ==
   /\ twin # <<>>
   /\ acc = <<>> /\ rest = <<>>
   /\ conn.buffer = <<>> /\ twin[1].buffer = <<>>

(* C24: every valid inbound SETTINGS frame without ACK makes the engine    *)
(* write exactly one SETTINGS frame with the ACK flag and an empty payload *)
(* and then fire on_settings; an inbound SETTINGS frame with ACK makes it  *)
(* write no frame and fire no on_settings; so two engines joined back to   *)
(* back always reach a state where nothing is on its way and neither has   *)
(* anything to write.                                                      *)
C24_SettingsAcknowledged ==
   /\ [][\A side \in {"server", "client"} :
            (Len(rt') = 2 /\ rt'[1] = side) =>
               /\ Ok(Receiver(side))
               /\ Paid(Receiver(side).cb) = Owed(rt'[2])
               /\ Wire(Receiver(side).cb)
                     = Repeat(FrameHeader(0, AckFrame), Len(Owed(rt'[2])) \div 2)]_vars
   /\ (twin # <<>>) ~> ShakeQuiet

(* all is quiet after an acknowledgement of changed settings was the last  *)
(* thing to arrive                                                         *)
C24_Witness ==
   /\ ShakeQuiet
   /\ steps = MaxShakeConfigs
   /\ Len(rt) = 2
   /\ Owed(rt[2]) = <<>>
   /\ rt[2] # <<>>
   /\ conn.state = "READY" /\ twin[1].state = "READY"
   /\ conn.settings[CNO_REMOTE] # CNO_SETTINGS_CONSERVATIVE
   /\ twin[1].settings[CNO_REMOTE] # CNO_SETTINGS_CONSERVATIVE

(***************************************************************************)
(* cno_frame_write on frames around and above the peer's max_frame_size.   *)
(***************************************************************************)
(* payloads of up to MaxParts parts *)
MaxParts == 3

(* the limits the peer announces *)
PeerLimits ==
   {CNO_SETTINGS_STANDARD[max_frame_size], CNO_SETTINGS_STANDARD[max_frame_size] + 1}

PartSizes(limit) ==
   {k * limit + r : k \in 0..(MaxParts - 1), r \in 0..1} \ {0}

PartPayload(n) ==
   [i \in 1..n |-> i % 251]

PartTypes ==
   {CNO_FRAME_DATA, CNO_FRAME_HEADERS, CNO_FRAME_PUSH_PROMISE, CNO_FRAME_CONTINUATION,
    CNO_FRAME_SETTINGS}

PartFlagBits ==
   <<CNO_FLAG_END_STREAM, CNO_FLAG_END_HEADERS, CNO_FLAG_PADDED, CNO_FLAG_PRIORITY>>

RECURSIVE FlagSum(_)
FlagSum(bits) ==
   IF bits = {} THEN 0
   ELSE LET b == CHOOSE b \in bits : TRUE
        IN  PartFlagBits[b] + FlagSum(bits \ {b})

PartFlags ==
   {FlagSum(bits) : bits \in SUBSET (1..Len(PartFlagBits))}

PartRunning ==
   /\ conn.rc \notin Fatal
   /\ IF acc = <<>> THEN TRUE ELSE acc[1] # "frame"

PartCalled(c, call) ==
   /\ conn' = [c EXCEPT !.fail = {}, !.ub = "crash"]
   /\ mon' = ObserveAll(mon, c.cb, c.fail)
   /\ steps' = steps + 1
   /\ acc' = call
   /\ UNCHANGED <<twin, rest, enc, dec, rt>>

PartMade ==
   /\ PartRunning
   /\ conn.state = "UNDEFINED"
   /\ ~conn.on_upgrade
   /\ PartCalled(Call("cno_connection_made", <<Begin(conn, {}, "crash"), "HTTP2">>), <<"made">>)

(* the peer's SETTINGS, after the preface if a client sends them *)
PartReceived(limit) ==
   /\ PartRunning
   /\ conn.state \in {"PREFACE", "READY_NO_SETTINGS"}
   /\ PartCalled(Call("cno_connection_data_received", <<Begin(conn, {}, "crash"),
                    (IF conn.state = "PREFACE" THEN CNO_PREFACE ELSE <<>>)
                       \o SettingsFrame(Setting(max_frame_size, limit))>>),
                 <<"settings", limit>>)

(* a function of the engine writes a frame on stream 1 *)
PartWrite(type, flags, n) ==
   /\ PartRunning
   /\ conn.state \in {"READY", "READY_NO_SETTINGS", "PREFACE"}
   /\ PartCalled(Call("cno_frame_write", <<Begin(conn, {}, "crash"),
                                 Frame(type, flags, 1, PartPayload(n))>>),
                 <<"frame", type, flags, n>>)

PartNext ==
   \/ PartMade
   \/ \E limit \in PeerLimits : PartReceived(limit)
   \/ \E type \in PartTypes, flags \in PartFlags,
         n \in PartSizes(conn.settings[CNO_REMOTE][max_frame_size]) :
            PartWrite(type, flags, n)

SpecPart == Init /\ [][PartNext]_vars

(* the frames given to on_frame_send, in order *)
PartsOf(c) ==
   [i \in 1..Len(SentFrames(c)) |-> SentFrames(c)[i].frame]

RECURSIVE Joined(_)
Joined(parts) ==
   IF parts = <<>> THEN <<>> ELSE Head(parts).payload \o Joined(Tail(parts))

RECURSIVE WireOf(_)
WireOf(parts) ==
   IF parts = <<>> THEN <<>>
   ELSE FrameHeader(Len(Head(parts).payload), Head(parts)) \o Head(parts).payload
           \o WireOf(Tail(parts))

(* the parts carry the payload of the frame in order, none above the limit *)
SplitOf(parts, frame, limit) ==
   /\ Len(parts) >= 2
   /\ \A i \in 1..Len(parts) :
         /\ Len(parts[i].payload) <= limit
         /\ parts[i].size = Len(parts[i].payload)
         /\ parts[i].stream = frame.stream
         /\ HasFlag(parts[i].flags, CNO_FLAG_PADDED) = FALSE
   /\ Joined(parts) = frame.payload

SplitData(parts, frame) ==
   \A i \in 1..Len(parts) :
      /\ parts[i].type = CNO_FRAME_DATA
      /\ HasFlag(parts[i].flags, CNO_FLAG_END_STREAM)
            = (i = Len(parts) /\ HasFlag(frame.flags, CNO_FLAG_END_STREAM))

SplitHeaders(parts, frame) ==
   /\ parts[1].type = frame.type
   /\ HasFlag(parts[1].flags, CNO_FLAG_END_STREAM) = HasFlag(frame.flags, CNO_FLAG_END_STREAM)
   /\ HasFlag(parts[1].flags, CNO_FLAG_PRIORITY) = HasFlag(frame.flags, CNO_FLAG_PRIORITY)
   /\ \A i \in 2..Len(parts) :
         /\ parts[i].type = CNO_FRAME_CONTINUATION
         /\ ~HasFlag(parts[i].flags, CNO_FLAG_END_STREAM)
         /\ ~HasFlag(parts[i].flags, CNO_FLAG_PRIORITY)
   /\ \A i \in 1..Len(parts) :
         HasFlag(parts[i].flags, CNO_FLAG_END_HEADERS)
            = (i = Len(parts) /\ HasFlag(frame.flags, CNO_FLAG_END_HEADERS))

(* C25: cno_frame_write with a payload longer than the peer's              *)
(* max_frame_size writes frames whose payloads are each at most the limit  *)
(* and joined in order are the payload.  For DATA every part is DATA and   *)
(* only the last carries END_STREAM; for HEADERS and PUSH_PROMISE the      *)
(* first part keeps the type, END_STREAM and PRIORITY, the later parts are *)
(* CONTINUATION without END_STREAM and PRIORITY, and only the last carries *)
(* END_HEADERS.  A PADDED frame and a frame of any other type above the    *)
(* limit return ASSERTION and nothing is written.                          *)
C25_FrameWriteSplits ==
   [][\A type \in PartTypes, flags \in PartFlags,
         n \in PartSizes(conn.settings[CNO_REMOTE][max_frame_size]) :
         (/\ acc' = <<"frame", type, flags, n>>
          /\ n > conn.settings[CNO_REMOTE][max_frame_size]) =>
            LET limit == conn.settings[CNO_REMOTE][max_frame_size]
                frame == Frame(type, flags, 1, PartPayload(n))
                parts == PartsOf(conn')
            IN  IF HasFlag(flags, CNO_FLAG_PADDED)
                   \/ type \notin {CNO_FRAME_DATA, CNO_FRAME_HEADERS, CNO_FRAME_PUSH_PROMISE}
                THEN Refused("ASSERTION")
                ELSE /\ Ok(conn')
                     /\ SplitOf(parts, frame, limit)
                     /\ Wire(conn'.cb) = WireOf(parts)
                     /\ IF type = CNO_FRAME_DATA THEN SplitData(parts, frame)
                        ELSE SplitHeaders(parts, frame)]_vars

(* a HEADERS frame with END_STREAM, END_HEADERS and PRIORITY went out in   *)
(* three parts under a limit the peer had raised                           *)
C25_Witness ==
   /\ Len(acc) = 4 /\ acc[1] = "frame"
   /\ acc[2] = CNO_FRAME_HEADERS
   /\ acc[3] = CNO_FLAG_END_STREAM + CNO_FLAG_END_HEADERS + CNO_FLAG_PRIORITY
   /\ conn.settings[CNO_REMOTE][max_frame_size] = CNO_SETTINGS_STANDARD[max_frame_size] + 1
   /\ Len(SentFrames(conn)) = 3
   /\ Ok(conn)

(***************************************************************************)
(* A client that is promised streams: the PUSH_PROMISE arrives whole or    *)
(* followed by a CONTINUATION, before or after the response of the parent. *)
(***************************************************************************)
MaxPushSteps == 5

PromisedIds == {2, 4}

(* PUSH_PROMISE on the parent with the whole block, or with its first byte *)
(* and the rest in a CONTINUATION                                          *)
Promise(parent, promised, split) ==
   IF split
   THEN WireFrame(CNO_FRAME_PUSH_PROMISE, 0, parent,
                  Pack(promised, 4) \o Take(RequestBlock, 1))
        \o WireFrame(CNO_FRAME_CONTINUATION, CNO_FLAG_END_HEADERS, parent,
                     Drop(RequestBlock, 1))
   ELSE WireFrame(CNO_FRAME_PUSH_PROMISE, CNO_FLAG_END_HEADERS, parent,
                  Pack(promised, 4) \o RequestBlock)

PushInputs ==
   {[data |-> SettingsFrame(<<>>), is |-> <<"settings">>],
    [data |-> WireFrame(CNO_FRAME_HEADERS, CNO_FLAG_END_HEADERS, 1, ResponseBlock),
     is |-> <<"response">>],
    [data |-> WireFrame(CNO_FRAME_HEADERS, CNO_FLAG_END_HEADERS, 2, ResponseBlock),
     is |-> <<"pushed">>]}
   \cup {[data |-> Promise(1, promised, split), is |-> <<"promise", 1, promised, split>>] :
            promised \in PromisedIds, split \in BOOLEAN}

PushRunning ==
   /\ steps < MaxPushSteps
   /\ conn.rc \notin Fatal
   /\ conn.client = 1

PushCalled(c, call) ==
   /\ conn' = [c EXCEPT !.fail = {}, !.ub = "crash"]
   /\ mon' = ObserveAll(mon, c.cb, c.fail)
   /\ steps' = steps + 1
   /\ acc' = call
   /\ UNCHANGED <<twin, rest, enc, dec, rt>>

PushMade ==
   /\ PushRunning
   /\ conn.state = "UNDEFINED"
   /\ PushCalled(Call("cno_connection_made", <<Begin(conn, {}, "crash"), "HTTP2">>), <<"made">>)

PushReceived(in) ==
   /\ PushRunning
   /\ conn.state # "UNDEFINED"
   /\ PushCalled(Call("cno_connection_data_received", <<Begin(conn, {}, "crash"), in.data>>), in.is)

(* the request on stream 1, with or without a body to follow *)
PushWriteMessage(final) ==
   /\ PushRunning
   /\ conn.state # "UNDEFINED"
   /\ PushCalled(Call("cno_write_message", <<Begin(conn, {}, "crash"), 1, AppMessage(conn), final>>),
                 <<"write_message", final>>)

PushNext ==
   \/ PushMade
   \/ \E in \in PushInputs : PushReceived(in)
   \/ \E final \in BOOLEAN : PushWriteMessage(final)

SpecPush == Init /\ [][PushNext]_vars

(* the parent may be promised the stream: it is in the table with PUSH,    *)
(* pushes are enabled and the id is a new one of the peer                  *)
Promisable(c, parent, promised) ==
   /\ c.client = 1
   /\ TakesFrames(c)
   /\ c.state = "READY"
   /\ c.settings[CNO_LOCAL][enable_push] = 1
   /\ cno_stream_find(c, parent)
   /\ "PUSH" \in Stream(c, parent).accept
   /\ promised > c.last_stream[CNO_REMOTE]
   /\ ULt(c.stream_count[CNO_REMOTE], c.settings[CNO_LOCAL][max_concurrent_streams])

(* C26: a client that receives a valid push-promise block on a parent      *)
(* stream with PUSH accept fires on_message_push exactly once, with the    *)
(* parent's id, the request and the promised id; the promised stream keeps *)
(* accept = HEADERS and the accept mask of the parent does not change.     *)
(* This is so whether the block comes in one PUSH_PROMISE frame or in a    *)
(* PUSH_PROMISE and a CONTINUATION frame, and before as well as after the  *)
(* response headers of the parent.                                         *)
C26_PushPromiseDelivered ==
   [][\A promised \in PromisedIds, split \in BOOLEAN :
         (/\ acc' = <<"promise", 1, promised, split>>
          /\ Promisable(conn, 1, promised)) =>
            /\ Ok(conn')
            /\ Len(FiredOf(conn', "on_message_push")) = 1
            /\ FiredOf(conn', "on_message_push")[1].id = 1
            /\ FiredOf(conn', "on_message_push")[1].aux = promised
            /\ FiredOf(conn', "on_message_push")[1].msg.method = STR_GET
            /\ FiredOf(conn', "on_message_push")[1].msg.path = STR_SLASH
            /\ cno_stream_find(conn', promised)
            /\ Stream(conn', promised).accept = {"HEADERS"}
            /\ cno_stream_find(conn', 1)
            /\ Stream(conn', 1).accept = Stream(conn, 1).accept]_vars
(***************************************************************************)
(* A stream that is reset by the application before its initial HEADERS    *)
(* are complete: on a client before the response, on a server between the  *)
(* HEADERS frame and its CONTINUATION.                                     *)
(***************************************************************************)
MaxNopSteps == 6

(* blocks that add `cookie: x` to the dynamic table; the second one of     *)
(* each pair has a pseudo-header after it and fails validation             *)
NopResponses == {<<136, 96, 1, 120>>, <<96, 1, 120, 136>>}
NopRequests == {<<130, 134, 132, 96, 1, 120>>, <<130, 134, 96, 1, 120, 132>>}

NopInputs(c) ==
   IF c.state = "PREFACE"
   THEN {[data |-> CNO_PREFACE \o SettingsFrame(<<>>), is |-> <<"preface">>]}
   ELSE
   {[data |-> SettingsFrame(<<>>), is |-> <<"settings">>]}
   \cup (IF c.client = 1
         THEN {[data |-> WireFrame(CNO_FRAME_HEADERS, CNO_FLAG_END_HEADERS, 1, block),
                is |-> <<"block", 1, block>>] : block \in NopResponses}
              \cup
              {[data |-> WireFrame(CNO_FRAME_HEADERS, 0, 1, Take(block, 1))
                         \o WireFrame(CNO_FRAME_CONTINUATION, CNO_FLAG_END_HEADERS, 1,
                                      Drop(block, 1)),
                is |-> <<"block", 1, block>>] : block \in NopResponses}
         ELSE {[data |-> WireFrame(CNO_FRAME_HEADERS, 0, 1, <<130>>),
                is |-> <<"open", 1>>]}
              \cup
              {[data |-> WireFrame(CNO_FRAME_CONTINUATION, CNO_FLAG_END_HEADERS, 1,
                                   Drop(block, 1)),
                is |-> <<"block", 1, block>>] : block \in NopRequests})

NopRunning ==
   /\ steps < MaxNopSteps
   /\ conn.rc \notin Fatal
   /\ ~conn.on_upgrade

NopCalled(c, call) ==
   /\ conn' = [c EXCEPT !.fail = {}, !.ub = "crash"]
   /\ mon' = ObserveAll(mon, c.cb, c.fail)
   /\ steps' = steps + 1
   /\ acc' = call
   /\ UNCHANGED <<twin, rest, enc, dec, rt>>

NopMade ==
   /\ NopRunning
   /\ conn.state = "UNDEFINED"
   /\ NopCalled(Call("cno_connection_made", <<Begin(conn, {}, "crash"), "HTTP2">>), <<"made">>)

NopReceived(in) ==
   /\ NopRunning
   /\ conn.state # "UNDEFINED"
   /\ NopCalled(Call("cno_connection_data_received", <<Begin(conn, {}, "crash"), in.data>>), in.is)

NopWriteMessage ==
   /\ NopRunning
   /\ conn.state # "UNDEFINED"
   /\ conn.client = 1
   /\ NopCalled(Call("cno_write_message", <<Begin(conn, {}, "crash"), 1, AppMessage(conn), FALSE>>),
                <<"write_message">>)

NopWriteReset ==
   /\ NopRunning
   /\ conn.state # "UNDEFINED"
   /\ NopCalled(Call("cno_write_reset", <<Begin(conn, {}, "crash"), 1, CNO_RST_NO_ERROR>>),
                <<"write_reset", 1>>)

NopNext ==
   \/ NopMade
   \/ \E in \in NopInputs(conn) : NopReceived(in)
   \/ NopWriteMessage
   \/ NopWriteReset

SpecNop == Init /\ [][NopNext]_vars

(* the stream awaits its initial HEADERS *)
AwaitsHeaders(c, id) ==
   /\ c.state = "READY"
   /\ c.buffer = <<>>
   /\ cno_stream_find(c, id)
   /\ "HEADERS" \in Stream(c, id).accept

(* the block is what completes the HEADERS of the stream: all of it to     *)
(* come, or its first byte received in a HEADERS frame                     *)
Completes(c, id, block) ==
   \/ c.continued_stream = 0 /\ c.client = 1
   \/ c.continued_stream = id /\ c.continued = Take(block, 1)

(* C27: a stream that is reset by the application while it accepts the     *)
(* initial HEADERS stays in the table, with NOP_HEADERS added to its       *)
(* accept mask and the OUTBOUND bits taken from it.  When the HEADERS of   *)
(* such a stream are complete, be the block valid or not, the decoder has  *)
(* the state that decoding the block gives, on_message_start has not       *)
(* fired, the stream is destroyed and its id is the last one written to    *)
(* the ring of the recently reset streams.                                 *)
C27_ResetBeforeHeaders ==
   /\ [][(/\ acc' = <<"write_reset", 1>>
          /\ AwaitsHeaders(conn, 1)) =>
            /\ Ok(conn')
            /\ cno_stream_find(conn', 1)
            /\ Stream(conn', 1).accept
                  = (Stream(conn, 1).accept \ CNO_ACCEPT_OUTBOUND) \cup {"NOP_HEADERS"}]_vars
   /\ [][\A block \in NopResponses \cup NopRequests :
            (/\ acc' = <<"block", 1, block>>
             /\ AwaitsHeaders(conn, 1)
             /\ "NOP_HEADERS" \in Stream(conn, 1).accept
             /\ Completes(conn, 1, block)) =>
               /\ Ok(conn')
               /\ conn'.decoder
                     = cno_hpack_decode(conn.decoder, block, CNO_MAX_HEADERS).state
               /\ FiredOf(conn', "on_message_start") = <<>>
               /\ ~cno_stream_find(conn', 1)
               /\ Len(EndsOf(conn', 1)) = 1
               /\ conn'.recently_reset[(conn'.recently_reset_next
                                           + CNO_STREAM_RESET_HISTORY - 1)
                                        % CNO_STREAM_RESET_HISTORY] = 1]_vars
(***************************************************************************)
(* A server whose streams end one after the other, reset by the            *)
(* application or answered to the end, and a peer that sends DATA,         *)
(* RST_STREAM and WINDOW_UPDATE frames for ids old and new.  `rest` is the *)
(* list of the ids that the endpoint has reset, oldest first.              *)
(***************************************************************************)
MaxRingStreams == 8

ProbeIds == {0, 1, 2, 3, 2 * MaxRingStreams + 1}

ProbeKinds ==
   {"data", "padded", "overpadded", "rst", "update", "short_update", "zero_update"}

(* the kinds that pass the tests each handler makes on the frame alone *)
WellFormed == {"data", "padded", "rst", "update"}

Probe(kind, id) ==
   CASE kind = "data" -> WireFrame(CNO_FRAME_DATA, 0, id, <<97>>)
     [] kind = "padded" -> PaddedData(id, 3, 1)
     [] kind = "overpadded" -> WireFrame(CNO_FRAME_DATA, CNO_FLAG_PADDED, id, <<1>>)
     [] kind = "rst" -> WireFrame(CNO_FRAME_RST_STREAM, 0, id, Pack(CNO_RST_NO_ERROR, 4))
     [] kind = "update" -> WireFrame(CNO_FRAME_WINDOW_UPDATE, 0, id, Pack(1, 4))
     [] kind = "short_update" -> WireFrame(CNO_FRAME_WINDOW_UPDATE, 0, id, Pack(1, 3))
     [] kind = "zero_update" -> WireFrame(CNO_FRAME_WINDOW_UPDATE, 0, id, Pack(0, 4))

(* what a call of the application, or a call that wrote RST_STREAM for the *)
(* stream, took from the table: the id, and whether RST_STREAM was written *)
(* (a call of this specification ends one stream at most)                  *)
LocalEnds(before, after, call) ==
   LET ended == LiveStreams(before) \ LiveStreams(after)
       id == CHOOSE id \in ended : TRUE
       reset == WroteFrame(after, CNO_FRAME_RST_STREAM, id, Pack(CNO_RST_NO_ERROR, 4))
   IN  IF ended # {} /\ (reset \/ call[1] \in {"write_message", "write_reset"})
       THEN <<[id |-> id, reset |-> reset]>>
       ELSE <<>>

RingRunning ==
   /\ conn.rc \notin Fatal
   /\ conn.client = 0
   /\ ~conn.on_upgrade

RingCalled(c, call) ==
   /\ conn' = [c EXCEPT !.fail = {}, !.ub = "crash"]
   /\ mon' = ObserveAll(mon, c.cb, c.fail)
   /\ rest' = rest \o LocalEnds(conn, c, call)
   /\ acc' = call
   /\ UNCHANGED <<steps, twin, enc, dec, rt>>

RingMade ==
   /\ RingRunning
   /\ conn.state = "UNDEFINED"
   /\ RingCalled(Call("cno_connection_made", <<Begin(conn, {}, "crash"), "HTTP2">>), <<"made">>)

RingPreface ==
   /\ RingRunning
   /\ conn.state = "PREFACE"
   /\ RingCalled(Call("cno_connection_data_received", <<Begin(conn, {}, "crash"),
                                              CNO_PREFACE \o SettingsFrame(<<>>)>>),
                 <<"preface">>)

(* the id of the next stream of the peer *)
NextId(c) ==
   IF c.last_stream[CNO_REMOTE] = 0 THEN 1 ELSE c.last_stream[CNO_REMOTE] + 2

(* the next request of the peer, once the one before it is over; the       *)
(* requests with the ids that the peer sends frames for later are with or  *)
(* without a body, the others with one                                     *)
RingOpen(final) ==
   /\ RingRunning
   /\ conn.state = "READY"
   /\ LiveStreams(conn) = {}
   /\ NextId(conn) < 2 * MaxRingStreams
   /\ final => NextId(conn) \in ProbeIds
   /\ RingCalled(Call("cno_connection_data_received", <<
                    Begin(conn, {}, "crash"),
                    WireFrame(CNO_FRAME_HEADERS,
                              CNO_FLAG_END_HEADERS
                                 + (IF final THEN CNO_FLAG_END_STREAM ELSE 0),
                              NextId(conn), RequestBlock)>>),
                 <<"open", NextId(conn), final>>)

(* the window of the connection is increased once at most *)
RingProbe(kind, id) ==
   /\ RingRunning
   /\ conn.state = "READY"
   /\ conn.window_send = CNO_SETTINGS_STANDARD[initial_window_size]
   /\ cno_stream_find(conn, id) => kind = "rst"
   /\ RingCalled(Call("cno_connection_data_received", <<Begin(conn, {}, "crash"), Probe(kind, id)>>),
                 <<"probe", kind, id>>)

(* the response, which ends the stream without a reset *)
RingWriteMessage(id) ==
   /\ RingRunning
   /\ RingCalled(Call("cno_write_message", <<Begin(conn, {}, "crash"), id, AppMessage(conn), TRUE>>),
                 <<"write_message", id>>)

RingWriteReset(id) ==
   /\ RingRunning
   /\ RingCalled(Call("cno_write_reset", <<Begin(conn, {}, "crash"), id, CNO_RST_NO_ERROR>>),
                 <<"write_reset", id>>)

RingNext ==
   \/ RingMade
   \/ RingPreface
   \/ \E final \in BOOLEAN : RingOpen(final)
   \/ \E kind \in ProbeKinds, id \in ProbeIds : RingProbe(kind, id)
   \/ \E id \in LiveStreams(conn) : RingWriteMessage(id)
   \/ \E id \in LiveStreams(conn) : RingWriteReset(id)

SpecRing == Init /\ [][RingNext]_vars

(* the last CNO_STREAM_RESET_HISTORY ids of the list *)
Recent(h) ==
   {h[i].id : i \in {j \in 1..Len(h) : j > Len(h) - CNO_STREAM_RESET_HISTORY}}

(* the streams that ended with an RST_STREAM frame of the endpoint *)
Resets(h) ==
   SelectSeq(h, LAMBDA e : e.reset)

(* the frame is dropped: no GOAWAY and nothing about a message or a stream *)
Ignored(c) ==
   /\ Ok(c)
   /\ \A i \in 1..Len(c.cb) :
         \/ c.cb[i].ev \in {"on_frame", "on_write"}
         \/ /\ c.cb[i].ev = "on_frame_send"
            /\ c.cb[i].frame.type = CNO_FRAME_WINDOW_UPDATE
            /\ c.cb[i].frame.stream = 0

RefusedStream(c) ==
   /\ c.rc = "TRANSPORT"
   /\ WroteGoaway(c, CNO_RST_PROTOCOL_ERROR)

(* a frame of one of the kinds for an id that is not in the table is       *)
(* ignored if the id is not 0, is at most last_stream of its side and is   *)
(* among the last ids of the list, and refused if not                      *)
RingRule(kinds, ids, h) ==
   \A kind \in kinds, id \in ids :
      (/\ acc' = <<"probe", kind, id>>
       /\ TakesFrames(conn)
       /\ conn.state = "READY"
       /\ ~cno_stream_find(conn, id)) =>
         IF /\ id # 0
            /\ id <= conn.last_stream[cno_stream_is_local(conn, id)]
            /\ id \in Recent(h)
         THEN Ignored(conn') /\ LiveStreams(conn') = LiveStreams(conn)
         ELSE RefusedStream(conn')

MaxBlockHeaders == 3

Hdr(name, value) ==
   [name |-> name, value |-> value]

RequestFields ==
   {Hdr(STR_P_method, STR_GET), Hdr(STR_P_method, <<>>),
    Hdr(STR_P_path, STR_SLASH), Hdr(STR_P_path, <<>>),
    Hdr(STR_P_scheme, STR_http), Hdr(STR_P_authority, STR_a),
    Hdr(STR_P_status, <<50, 48, 48>>),
    Hdr(STR_x, STR_a), Hdr(STR_Host, STR_a)}

ResponseFields ==
   {Hdr(STR_P_status, <<50, 48, 48>>), Hdr(STR_P_status, <<48>>),
    Hdr(STR_P_status, <<>>), Hdr(STR_P_status, <<50, 120>>),
    Hdr(STR_P_path, STR_SLASH),
    Hdr(STR_x, STR_a), Hdr(STR_Host, STR_a)}

(* the lists of up to MaxBlockHeaders of the headers, alone or after a     *)
(* list that is a whole message                                            *)
BlocksOf(whole, headers) ==
   UNION {{prefix \o list : list \in [1..n -> headers]} :
             prefix \in {<<>>, whole}, n \in 0..MaxBlockHeaders}

RequestLists ==
   BlocksOf(<<Hdr(STR_P_method, STR_GET), Hdr(STR_P_path, STR_SLASH),
              Hdr(STR_P_scheme, STR_http)>>, RequestFields)

ResponseLists ==
   BlocksOf(<<Hdr(STR_P_status, <<50, 48, 48>>)>>, ResponseFields)

(* a literal header field without indexing and with a new name, the        *)
(* strings as they are (RFC 7541, 6.2.2)                                   *)
RECURSIVE Literals(_)
Literals(hs) ==
   IF hs = <<>> THEN <<>>
   ELSE <<0, Len(Head(hs).name)>> \o Head(hs).name
        \o <<Len(Head(hs).value)>> \o Head(hs).value
        \o Literals(Tail(hs))

ValidRunning ==
   /\ conn.rc \notin Fatal
   /\ ~conn.on_upgrade
   /\ IF acc = <<>> THEN TRUE ELSE acc[1] # "block"

ValidCalled(c, call) ==
   /\ conn' = [c EXCEPT !.fail = {}, !.ub = "crash"]
   /\ mon' = ObserveAll(mon, c.cb, c.fail)
   /\ steps' = steps + 1
   /\ acc' = call
   /\ UNCHANGED <<twin, rest, enc, dec, rt>>

ValidMade ==
   /\ ValidRunning
   /\ conn.state = "UNDEFINED"
   /\ ValidCalled(Call("cno_connection_made", <<Begin(conn, {}, "crash"), "HTTP2">>), <<"made">>)

ValidSettings ==
   /\ ValidRunning
   /\ conn.state \in {"PREFACE", "READY_NO_SETTINGS"}
   /\ ValidCalled(Call("cno_connection_data_received", <<
                     Begin(conn, {}, "crash"),
                     (IF conn.client = 1 THEN <<>> ELSE CNO_PREFACE) \o SettingsFrame(<<>>)>>),
                  <<"settings">>)

ValidWriteMessage ==
   /\ ValidRunning
   /\ conn.state = "READY"
   /\ conn.client = 1
   /\ ~cno_stream_find(conn, 1)
   /\ ValidCalled(Call("cno_write_message", <<Begin(conn, {}, "crash"), 1, AppMessage(conn), FALSE>>),
                  <<"write_message">>)

(* HEADERS with END_HEADERS on stream 1: new to a server, awaited by a     *)
(* client                                                                  *)
ValidReceived(headers) ==
   /\ ValidRunning
   /\ conn.state = "READY"
   /\ (conn.client = 1) = cno_stream_find(conn, 1)
   /\ ValidCalled(Call("cno_connection_data_received", <<
                     Begin(conn, {}, "crash"),
                     WireFrame(CNO_FRAME_HEADERS, CNO_FLAG_END_HEADERS, 1,
                               Literals(headers))>>),
                  <<"block", headers>>)

ValidNext ==
   \/ ValidMade
   \/ ValidSettings
   \/ ValidWriteMessage
   \/ \E headers \in (IF conn.client = 1 THEN ResponseLists ELSE RequestLists) :
         ValidReceived(headers)

SpecValid == Init /\ [][ValidNext]_vars

(* the rules as they are stated *)
PseudoFirst(hs) ==
   \A i, j \in 1..Len(hs) : (i < j /\ IsPseudo(hs[j])) => IsPseudo(hs[i])

NoUpper(hs) ==
   \A i \in 1..Len(hs) : ~HasUpper(hs[i].name)

Named(hs, name) ==
   {i \in 1..Len(hs) : hs[i].name = name}

StatedRequest(hs) ==
   /\ PseudoFirst(hs)
   /\ NoUpper(hs)
   /\ \A i \in 1..Len(hs) :
         IsPseudo(hs[i]) =>
            hs[i].name \in {STR_P_method, STR_P_path, STR_P_scheme, STR_P_authority}
   /\ Cardinality(Named(hs, STR_P_method)) = 1
   /\ Cardinality(Named(hs, STR_P_path)) = 1
   /\ \A i \in Named(hs, STR_P_path) : hs[i].value # <<>>
   /\ Cardinality(Named(hs, STR_P_scheme)) = 1
   /\ Cardinality(Named(hs, STR_P_authority)) <= 1

StatedResponse(hs) ==
   /\ PseudoFirst(hs)
   /\ NoUpper(hs)
   /\ Cardinality(Named(hs, STR_P_status)) = 1
   /\ \A i \in Named(hs, STR_P_status) : AllDigits(hs[i].value)

(* the message of stream 1 was given to the application *)
MessageStarted(c) ==
   /\ Ok(c)
   /\ Len(FiredOf(c, "on_message_start")) = 1
   /\ FiredOf(c, "on_message_start")[1].id = 1

(* the block was answered with RST_STREAM(PROTOCOL_ERROR) and nothing was  *)
(* said of a message                                                       *)
Rejected(c) ==
   /\ Ok(c)
   /\ WroteFrame(c, CNO_FRAME_RST_STREAM, 1, Pack(CNO_RST_PROTOCOL_ERROR, 4))
   /\ MessageEvents(c) = <<>>
   /\ FiredOf(c, "on_message_push") = <<>>

(* C29: a decoded request block is accepted if and only if the             *)
(* pseudo-headers come before the regular headers, no name has an          *)
(* uppercase ASCII letter, every pseudo-header is one of :method, :path,   *)
(* :scheme, :authority, and there is exactly one :method, exactly one      *)
(* :path, which is not empty, exactly one :scheme and at most one          *)
(* :authority; a response block is accepted if and only if the rules of    *)
(* order and case hold and there is exactly one :status, made of decimal   *)
(* digits only.  Every block that is not accepted is answered with         *)
(* RST_STREAM(PROTOCOL_ERROR) and no message callback.                     *)
C29_HeaderValidation ==
   [][(IF acc' = <<>> THEN FALSE ELSE acc'[1] = "block") =>
         IF (IF conn.client = 1 THEN StatedResponse(acc'[2]) ELSE StatedRequest(acc'[2]))
         THEN MessageStarted(conn')
         ELSE Rejected(conn')]_vars
(***************************************************************************)
(* A server and a peer that breaks the protocol in one of the ways through *)
(* which the engine gives up the connection.                               *)
(***************************************************************************)
MaxViolateSteps == 5

(* a local limit of one stream of the peer at a time *)
OneStream ==
   [CNO_SETTINGS_INITIAL EXCEPT ![max_concurrent_streams] = 1]

(* HEADERS and CNO_MAX_CONTINUATIONS CONTINUATION frames of the standard   *)
(* max_frame_size, and one CONTINUATION of a byte more                     *)
Flood ==
   LET full == [i \in 1..CNO_SETTINGS_STANDARD[max_frame_size] |-> 0]
       more == WireFrame(CNO_FRAME_CONTINUATION, 0, 1, full)
   IN  WireFrame(CNO_FRAME_HEADERS, 0, 1, full)
       \o more \o more \o more
       \o WireFrame(CNO_FRAME_CONTINUATION, 0, 1, <<0>>)

ViolationKinds ==
   {"size", "stream", "idle", "overflow", "continuation", "flood", "hpack",
    "limit", "parity", "nonincreasing", "first"}

(* what the peer sends for each kind *)
Violation(kind) ==
   CASE kind = "size" -> WireFrame(CNO_FRAME_PING, 0, 0, <<1>>)
     [] kind = "stream" -> WireFrame(CNO_FRAME_PING, 0, 1, Pack(0, 8))
     [] kind = "idle" -> WireFrame(CNO_FRAME_DATA, 0, 5, <<97>>)
     [] kind = "overflow" -> WireFrame(CNO_FRAME_WINDOW_UPDATE, 0, 0, Pack(INT32_MAX, 4))
     [] kind = "continuation" ->
           WireFrame(CNO_FRAME_CONTINUATION, CNO_FLAG_END_HEADERS, 1, RequestBlock)
     [] kind = "flood" -> Flood
     [] kind = "hpack" -> WireFrame(CNO_FRAME_HEADERS, CNO_FLAG_END_HEADERS, 1, <<128>>)
     [] kind = "limit" ->
           WireFrame(CNO_FRAME_HEADERS, CNO_FLAG_END_HEADERS, 5, RequestBlock)
     [] kind = "parity" ->
           WireFrame(CNO_FRAME_HEADERS, CNO_FLAG_END_HEADERS, 2, RequestBlock)
     [] kind = "nonincreasing" ->
           WireFrame(CNO_FRAME_HEADERS, CNO_FLAG_END_HEADERS, 1, RequestBlock)
     [] kind = "first" -> WireFrame(CNO_FRAME_PING, 0, 0, Pack(0, 8))

(* the error code of the GOAWAY that answers each kind *)
CodeOf(kind) ==
   CASE kind = "size" -> CNO_RST_FRAME_SIZE_ERROR
     [] kind = "overflow" -> CNO_RST_FLOW_CONTROL_ERROR
     [] kind = "flood" -> CNO_RST_ENHANCE_YOUR_CALM
     [] kind = "hpack" -> CNO_RST_COMPRESSION_ERROR
     [] OTHER -> CNO_RST_PROTOCOL_ERROR

(* the frames of the kind break the protocol in the state of c *)
Violates(c, kind) ==
   IF kind = "first"
   THEN c.state = "READY_NO_SETTINGS" /\ c.buffer = <<>>
   ELSE /\ c.state = "READY"
        /\ TakesFrames(c)
        /\ CASE kind \in {"flood", "hpack"} ->
                   /\ c.last_stream[CNO_REMOTE] = 0
                   /\ c.settings[CNO_LOCAL][max_concurrent_streams] > 0
             [] kind = "limit" ->
                   /\ c.last_stream[CNO_REMOTE] < 5
                   /\ c.stream_count[CNO_REMOTE]
                         >= c.settings[CNO_LOCAL][max_concurrent_streams]
             [] kind = "nonincreasing" ->
                   /\ c.last_stream[CNO_REMOTE] >= 1
                   /\ ~cno_stream_find(c, 1)
             [] kind = "idle" -> c.last_stream[CNO_REMOTE] < 5
             [] OTHER -> TRUE

ViolateRunning ==
   /\ steps < MaxViolateSteps
   /\ conn.rc \notin Fatal
   /\ conn.client = 0
   /\ ~conn.on_upgrade

ViolateCalled(c, call) ==
   /\ conn' = [c EXCEPT !.fail = {}, !.ub = "crash"]
   /\ mon' = ObserveAll(mon, c.cb, c.fail)
   /\ steps' = steps + 1
   /\ acc' = call
   /\ UNCHANGED <<twin, rest, enc, dec, rt>>

ViolateMade ==
   /\ ViolateRunning
   /\ conn.state = "UNDEFINED"
   /\ ViolateCalled(Call("cno_connection_made", <<Begin(conn, {}, "crash"), "HTTP2">>), <<"made">>)

ViolateConfig ==
   /\ ViolateRunning
   /\ conn.settings[CNO_LOCAL] # OneStream
   /\ ViolateCalled(Call("cno_connection_set_config", <<Begin(conn, {}, "crash"), OneStream>>),
                    <<"set_config">>)

(* the preface with or without the SETTINGS frame, SETTINGS, a request on  *)
(* stream 1 or 3                                                           *)
ViolateInputs(c) ==
   IF c.state = "PREFACE"
   THEN {[data |-> CNO_PREFACE \o SettingsFrame(<<>>), is |-> <<"preface">>],
         [data |-> CNO_PREFACE, is |-> <<"preface">>]}
   ELSE {[data |-> SettingsFrame(<<>>), is |-> <<"settings">>]}
        \cup {[data |-> WireFrame(CNO_FRAME_HEADERS, CNO_FLAG_END_HEADERS, id, RequestBlock),
               is |-> <<"open", id>>] : id \in {1, 3}}

ViolateReceived(in) ==
   /\ ViolateRunning
   /\ conn.state # "UNDEFINED"
   /\ IF in.is[1] = "open"
      THEN conn.state = "READY" /\ in.is[2] > conn.last_stream[CNO_REMOTE]
      ELSE TRUE
   /\ ViolateCalled(Call("cno_connection_data_received", <<Begin(conn, {}, "crash"), in.data>>), in.is)

ViolateBroken(kind) ==
   /\ ViolateRunning
   /\ Violates(conn, kind)
   /\ ViolateCalled(Call("cno_connection_data_received", <<Begin(conn, {}, "crash"),
                                                 Violation(kind)>>),
                    <<"violation", kind>>)

ViolateNext ==
   \/ ViolateMade
   \/ ViolateConfig
   \/ \E in \in ViolateInputs(conn) : ViolateReceived(in)
   \/ \E kind \in ViolationKinds : ViolateBroken(kind)

SpecViolate == Init /\ [][ViolateNext]_vars

(* C30: whatever the violation of the peer in the processing of HTTP/2     *)
(* frames, data_received returns TRANSPORT and a GOAWAY frame with the     *)
(* error code of the violation has been written by then: a frame of a bad  *)
(* size, a frame with a bad stream id, an overflow of a flow-control       *)
(* window, a flood of CONTINUATION frames, a header block that cannot be   *)
(* decoded, a stream beyond the limit of concurrent streams, HEADERS on a  *)
(* stream id of the wrong parity or not above the last one, and a first    *)
(* frame that is not SETTINGS.                                             *)
C30_ViolationsGoaway ==
   [][\A kind \in ViolationKinds :
         acc' = <<"violation", kind>> =>
            /\ conn'.rc = "TRANSPORT"
            /\ WroteGoaway(conn', CodeOf(kind))]_vars

(***************************************************************************)
(* The first frame of an HTTP/2 connection: a client or a server right     *)
(* after the preface, and a peer that starts with a frame of any type,     *)
(* whole or in two pieces, alone or followed by another frame.             *)
(***************************************************************************)
MaxFirstSteps == 4

FrameTypes == CNO_FRAME_DATA..CNO_FRAME_UNKNOWN

(* a frame of each type as a peer would send it first *)
FirstFrame(type) ==
   CASE type = CNO_FRAME_DATA -> WireFrame(type, 0, 1, STR_ab)
     [] type = CNO_FRAME_HEADERS ->
           WireFrame(type, CNO_FLAG_END_HEADERS, 1, RequestBlock)
     [] type = CNO_FRAME_PRIORITY -> WireFrame(type, 0, 1, Pack(0, 4) \o <<0>>)
     [] type = CNO_FRAME_RST_STREAM ->
           WireFrame(type, 0, 1, Pack(CNO_RST_NO_ERROR, 4))
     [] type = CNO_FRAME_SETTINGS -> SettingsFrame(<<>>)
     [] type = CNO_FRAME_PUSH_PROMISE ->
           WireFrame(type, CNO_FLAG_END_HEADERS, 1, Pack(2, 4) \o RequestBlock)
     [] type = CNO_FRAME_PING -> WireFrame(type, CNO_FLAG_ACK, 0, Pack(0, 8))
     [] type = CNO_FRAME_GOAWAY ->
           WireFrame(type, 0, 0, Pack(0, 4) \o Pack(CNO_RST_NO_ERROR, 4))
     [] type = CNO_FRAME_WINDOW_UPDATE -> WireFrame(type, 0, 0, Pack(1, 4))
     [] type = CNO_FRAME_CONTINUATION ->
           WireFrame(type, CNO_FLAG_END_HEADERS, 1, RequestBlock)
     [] OTHER -> WireFrame(type, 0, 0, <<>>)

(* SETTINGS frames: empty, with a setting, an acknowledgement, and broken  *)
(* ones (on a stream, of a bad size)                                       *)
FirstSettings ==
   {SettingsFrame(<<>>),
    SettingsFrame(Setting(max_concurrent_streams, 1)),
    WireFrame(CNO_FRAME_SETTINGS, CNO_FLAG_ACK, 0, <<>>),
    WireFrame(CNO_FRAME_SETTINGS, 0, 1, <<>>),
    SettingsFrame(<<0, 0, 0>>)}

(* the header of a frame that is bigger than max_frame_size, of each type *)
Oversize(type) ==
   Pack(CNO_SETTINGS_INITIAL[max_frame_size] + 1, 3) \o <<type, 0>> \o Pack(0, 4)

(* what the peer may start with: `first` is the type of the first frame,   *)
(* `whole` whether all of it is there                                      *)
FirstInputs ==
   {[data |-> FirstFrame(type), first |-> type, whole |-> TRUE] :
       type \in FrameTypes \ {CNO_FRAME_SETTINGS}}
   \cup {[data |-> s, first |-> CNO_FRAME_SETTINGS, whole |-> TRUE] : s \in FirstSettings}
   \cup {[data |-> s \o FirstFrame(type), first |-> CNO_FRAME_SETTINGS, whole |-> TRUE] :
            s \in {SettingsFrame(<<>>)},
            type \in {CNO_FRAME_PING, CNO_FRAME_WINDOW_UPDATE, CNO_FRAME_HEADERS,
                      CNO_FRAME_DATA}}
   \cup {[data |-> SubSeq(FirstFrame(type), 1, n), first |-> type,
          whole |-> n >= Len(FirstFrame(type))] :
            type \in {CNO_FRAME_PING, CNO_FRAME_SETTINGS, CNO_FRAME_GOAWAY},
            n \in {5, 9}}
   \cup {[data |-> SubSeq(SettingsFrame(Setting(max_concurrent_streams, 1)), 1, 12),
          first |-> CNO_FRAME_SETTINGS, whole |-> FALSE]}
   \cup {[data |-> Oversize(type), first |-> type, whole |-> FALSE] :
            type \in {CNO_FRAME_SETTINGS, CNO_FRAME_DATA}}

(* the bytes that complete what is buffered *)
FirstRest(c) ==
   {[data |-> SubSeq(f, Len(c.buffer) + 1, Len(f)), first |-> f[4], whole |-> TRUE] :
       f \in {g \in {FirstFrame(CNO_FRAME_PING), FirstFrame(CNO_FRAME_GOAWAY),
                     SettingsFrame(<<>>),
                     SettingsFrame(Setting(max_concurrent_streams, 1))} :
                 /\ Len(g) > Len(c.buffer)
                 /\ SubSeq(g, 1, Len(c.buffer)) = c.buffer}}

BeforeSettings == {"INIT", "PREFACE", "READY_NO_SETTINGS"}

FirstRunning ==
   /\ steps < MaxFirstSteps
   /\ conn.rc \notin Fatal
   /\ ~conn.on_upgrade

FirstCalled(c, call) ==
   /\ conn' = [c EXCEPT !.fail = {}, !.ub = "crash"]
   /\ mon' = ObserveAll(mon, c.cb, c.fail)
   /\ steps' = steps + 1
   /\ acc' = call
   /\ UNCHANGED <<twin, rest, enc, dec, rt>>

FirstMade ==
   /\ FirstRunning
   /\ conn.state = "UNDEFINED"
   /\ FirstCalled(Call("cno_connection_made", <<Begin(conn, {}, "crash"), "HTTP2">>), <<"made">>)

(* the preface of the client alone *)
FirstPreface ==
   /\ FirstRunning
   /\ conn.state = "PREFACE"
   /\ FirstCalled(Call("cno_connection_data_received", <<Begin(conn, {}, "crash"), CNO_PREFACE>>),
                  <<"preface">>)

(* the first bytes after the preface, or with it *)
FirstReceived(in) ==
   /\ FirstRunning
   /\ conn.state \in BeforeSettings
   /\ conn.buffer = <<>>
   /\ FirstCalled(Call("cno_connection_data_received", <<
                     Begin(conn, {}, "crash"),
                     IF conn.state = "PREFACE" THEN CNO_PREFACE \o in.data ELSE in.data>>),
                  <<"first", in.first, in.whole>>)

(* the rest of a frame that came in part *)
FirstCompleted(in) ==
   /\ FirstRunning
   /\ conn.state \in BeforeSettings
   /\ conn.buffer # <<>>
   /\ FirstCalled(Call("cno_connection_data_received", <<Begin(conn, {}, "crash"), in.data>>),
                  <<"first", in.first, in.whole>>)

(* a frame once the connection is READY *)
FirstLater(type) ==
   /\ FirstRunning
   /\ conn.state = "READY"
   /\ conn.buffer = <<>>
   /\ FirstCalled(Call("cno_connection_data_received", <<Begin(conn, {}, "crash"),
                                               FirstFrame(type)>>),
                  <<"later", type>>)

(* the application does not wait for the SETTINGS of the peer *)
FirstWriteMessage ==
   /\ FirstRunning
   /\ conn.state \in {"READY_NO_SETTINGS", "READY"}
   /\ conn.client = 1
   /\ conn.last_stream[CNO_LOCAL] = 0
   /\ FirstCalled(Call("cno_write_message", <<Begin(conn, {}, "crash"), 1, AppMessage(conn), TRUE>>),
                  <<"write_message">>)

FirstNext ==
   \/ FirstMade
   \/ FirstPreface
   \/ \E in \in FirstInputs : FirstReceived(in)
   \/ \E in \in FirstRest(conn) : FirstCompleted(in)
   \/ \E type \in {CNO_FRAME_PING, CNO_FRAME_WINDOW_UPDATE, CNO_FRAME_HEADERS} :
         FirstLater(type)
   \/ FirstWriteMessage

SpecFirst == Init /\ [][FirstNext]_vars

(* the callbacks about messages, settings, pongs and flow control *)
GatedCallbacks ==
   InboundCallbacks \cup {"on_settings", "on_pong", "on_flow_increase"}

(* the call of c took a SETTINGS frame from the buffer before event i *)
SettingsBefore(c, i) ==
   \E j \in 1..(i - 1) :
      c.cb[j].ev = "on_frame" /\ c.cb[j].frame.type = CNO_FRAME_SETTINGS

(* what frame handlers work on is the same in c and d *)
SameToHandlers(c, d) ==
   [d EXCEPT !.state = c.state, !.buffer = c.buffer, !.cb = c.cb, !.rc = c.rc,
             !.ret = c.ret] = c

(* C31: after the HTTP/2 preface, no frame handler and no message,         *)
(* settings, pong or flow callback runs before a SETTINGS frame has been   *)
(* received: in READY_NO_SETTINGS a first complete frame of any other type *)
(* makes data_received return TRANSPORT with the state left at             *)
(* READY_NO_SETTINGS, and the state becomes READY only as part of          *)
(* accepting a SETTINGS frame.                                             *)
C31_SettingsFirst ==
   [][(conn.state \in BeforeSettings /\ acc'[1] = "first") =>
         /\ \A i \in 1..Len(conn'.cb) :
               (conn'.cb[i].ev \in GatedCallbacks \cup {"on_frame"})
                  => \/ SettingsBefore(conn', i)
                     \/ /\ conn'.cb[i].ev = "on_frame"
                        /\ conn'.cb[i].frame.type = CNO_FRAME_SETTINGS
         /\ ((conn'.state = "READY_NO_SETTINGS") =>
               SameToHandlers(conn', conn))
         /\ ((conn'.state = "READY") =>
               /\ acc'[2] = CNO_FRAME_SETTINGS /\ acc'[3]
               /\ SettingsBefore(conn', Len(conn'.cb) + 1))
         /\ ((acc'[2] # CNO_FRAME_SETTINGS /\ acc'[3]) =>
               /\ conn'.rc = "TRANSPORT"
               /\ conn'.state = "READY_NO_SETTINGS")]_vars

(* a PING came first and was refused *)
C31_Witness ==
   /\ acc = <<"first", CNO_FRAME_PING, TRUE>>
   /\ conn.rc = "TRANSPORT"
   /\ conn.state = "READY_NO_SETTINGS"
   /\ conn.buffer = FirstFrame(CNO_FRAME_PING)

(***************************************************************************)
(* The dynamic tables of one encoder and one decoder that exchange header  *)
(* lists, with limits set between the lists and tables cleared.            *)
(***************************************************************************)
(* cno_hpack_clear of both codecs *)
HpackClear ==
   /\ rt # <<>>
   /\ steps < MaxLists
   /\ enc.table # <<>> \/ dec.table # <<>>
   /\ enc' = cno_hpack_clear(enc)
   /\ dec' = cno_hpack_clear(dec)
   /\ UNCHANGED <<conn, mon, steps, twin, acc, rest, rt>>

TableNext ==
   \/ \E limit \in HpackLimits : HpackInit(limit)
   \/ \E limit \in SetLimits : HpackSetLimit(limit)
   \/ HpackRoundTrip
   \/ HpackClear

SpecTable == Init /\ [][TableNext]_vars

RECURSIVE TableSum(_)
TableSum(table) ==
   IF table = <<>> THEN 0 ELSE EntrySize(Head(table)) + TableSum(Tail(table))

(* the longest prefix of the table that fits the limit *)
Fitting(table, limit) ==
   LET n == CHOOSE k \in 0..Len(table) :
               /\ TableSum(SubSeq(table, 1, k)) <= limit
               /\ \A j \in (k + 1)..Len(table) : TableSum(SubSeq(table, 1, j)) > limit
   IN  SubSeq(table, 1, n)

(* size is the sum over the entries and within the limit; a new entry goes *)
(* to the front and entries leave from the back                            *)
TableKept(state) ==
   /\ state.size = TableSum(state.table)
   /\ state.size <= state.limit
   /\ \A h \in HpackHeaders :
         /\ cno_hpack_index(state, h).table = Fitting(<<h>> \o state.table, state.limit)
         /\ (EntrySize(h) > state.limit => cno_hpack_index(state, h).table = <<>>)

(* C32: for the encoder and for the decoder HPACK state, after every       *)
(* completed cno_hpack_encode, cno_hpack_decode, cno_hpack_setlimit and    *)
(* cno_hpack_clear, size equals the sum of 32 + |name| + |value| over the  *)
(* entries of the dynamic table and size <= limit; entries are inserted at *)
(* the front and evicted only from the back, and an entry larger than      *)
(* limit leaves the table empty.                                           *)
C32_TableSizeWithinLimit ==
   [][rt # <<>> => TableKept(enc') /\ TableKept(dec')]_vars

(***************************************************************************)
(* The integers of HPACK on their own: a value is written with             *)
(* cno_hpack_encode_uint and the bytes, with what follows them in the      *)
(* block, are read with cno_hpack_decode_uint.                             *)
(***************************************************************************)
MaxUint == 300

PrefixWidths == {4, 5, 6, 7}

(* 0 to MaxUint, which takes in 2^N - 2, 2^N - 1, 2^N and 2^N - 1 + 128    *)
(* for every width, and the first value of three continuation bytes        *)
UintValues(prefix) ==
   0..MaxUint \cup {Pow2(prefix) - 1 + 128 * 128}

(* the pattern above the prefix: none, or that of the representation that  *)
(* uses the width (1xxxxxxx, 01xxxxxx, 001xxxxx, 0001xxxx)                 *)
UintMarks(prefix) ==
   {0, Pow2(prefix)}

(* what comes after the integer in the block *)
UintTails == {<<>>, <<0>>, <<129, 1>>}

UintEncoded(prefix, num, mark) ==
   /\ rt = <<>>
   /\ rt' = <<[prefix |-> prefix, value |-> num, mark |-> mark,
               bytes |-> cno_hpack_encode_uint(prefix, num, mark),
               read |-> FALSE, rc |-> CNO_OK, got |-> 0, tail |-> <<>>,
               rest |-> <<>>]>>
   /\ UNCHANGED <<conn, mon, steps, twin, acc, rest, enc, dec>>

UintDecoded(tail) ==
   /\ rt # <<>>
   /\ ~rt[1].read
   /\ LET d == Call("cno_hpack_decode_uint", <<rt[1].bytes \o tail, rt[1].prefix>>)
      IN  rt' = <<[rt[1] EXCEPT !.read = TRUE, !.rc = d.rc, !.got = d.value,
                                !.tail = tail, !.rest = d.rest]>>
   /\ UNCHANGED <<conn, mon, steps, twin, acc, rest, enc, dec>>

UintNext ==
   \/ \E prefix \in PrefixWidths :
         \E num \in UintValues(prefix), mark \in UintMarks(prefix) :
            UintEncoded(prefix, num, mark)
   \/ \E tail \in UintTails : UintDecoded(tail)

SpecUint == Init /\ [][UintNext]_vars

(* C33: HPACK integer coding round-trips: for every prefix width N in      *)
(* {4, 5, 6, 7} and every value v of the range, cno_hpack_decode_uint      *)
(* applied to the bytes produced by cno_hpack_encode_uint(N, v) returns v  *)
(* and consumes exactly those bytes; a value equal to 2^N - 1 is encoded   *)
(* as the all-ones prefix followed by a zero byte.                         *)
C33_UintRoundTrip ==
   \A i \in 1..Len(rt) :
      /\ rt[i].read =>
            /\ rt[i].rc = CNO_OK
            /\ rt[i].got = rt[i].value
            /\ rt[i].rest = rt[i].tail
      /\ rt[i].value = Pow2(rt[i].prefix) - 1 =>
            rt[i].bytes = <<rt[i].mark + Pow2(rt[i].prefix) - 1, 0>>

(***************************************************************************)
(* A decoder and the header blocks of a peer that changes the size of the  *)
(* dynamic table: the table is filled by blocks of literals, then a block  *)
(* with size updates in it is decoded.                                     *)
(***************************************************************************)
MaxFills == 2

(* the integers of the peer, as the format has them: the least significant *)
(* group of 7 bits first                                                   *)
RECURSIVE PeerGroups(_)
PeerGroups(n) ==
   IF n < 128 THEN <<n>> ELSE <<(n % 128) + 128>> \o PeerGroups(n \div 128)

PeerUint(prefix, num, mark) ==
   IF num < Pow2(prefix) - 1 THEN <<mark + num>>
   ELSE <<mark + Pow2(prefix) - 1>> \o PeerGroups(num - (Pow2(prefix) - 1))

(* room for no entry, for one entry, and for three *)
UpdateUppers ==
   {0, EntrySize(Header(STR_a, STR_1)), 3 * EntrySize(Header(STR_a, STR_1)) + 8}

(* sizes within and above each limit_upper, with one and two continuation  *)
(* bytes                                                                   *)
UpdateSizes ==
   {0, EntrySize(Header(STR_a, STR_1)) - 3, EntrySize(Header(STR_a, STR_1)),
    2 * EntrySize(Header(STR_a, STR_1)), 3 * EntrySize(Header(STR_a, STR_1)) + 9,
    CNO_SETTINGS_STANDARD[header_table_size]}

(* what a block is made of: a size update, a literal with incremental      *)
(* indexing, a reference to the static table                               *)
UpdateItems ==
   {[update |-> TRUE, size |-> s, bytes |-> PeerUint(5, s, 32)] : s \in UpdateSizes}
   \cup {[update |-> FALSE, size |-> 0,
          bytes |-> <<64, Len(h.name)>> \o h.name \o <<Len(h.value)>> \o h.value] :
            h \in {Header(STR_a, STR_1), Header(STR_b, STR_1)}}
   \cup {[update |-> FALSE, size |-> 0, bytes |-> <<130>>]}

UpdateBlocks ==
   {<<i>> : i \in UpdateItems} \cup {<<i, j>> : i, j \in UpdateItems}

FillBlocks ==
   {b \in UpdateBlocks : \A k \in 1..Len(b) : ~b[k].update /\ b[k].bytes[1] = 64}

BlockBytes(items) ==
   Flatten([k \in 1..Len(items) |-> items[k].bytes])

(* cno_hpack_init of the decoder *)
UpdateInit(limit) ==
   /\ rt = <<>>
   /\ acc = <<>>
   /\ dec' = cno_hpack_init(limit)
   /\ acc' = <<"init">>
   /\ UNCHANGED <<conn, mon, steps, twin, rest, enc, rt>>

(* cno_hpack_decode of a block of literals *)
UpdateFilled(items) ==
   /\ acc = <<"init">>
   /\ rt = <<>>
   /\ steps < MaxFills
   /\ dec' = cno_hpack_decode(dec, BlockBytes(items), CNO_MAX_HEADERS).state
   /\ steps' = steps + 1
   /\ UNCHANGED <<conn, mon, twin, acc, rest, enc, rt>>

(* cno_hpack_decode of a block with size updates *)
UpdateDecoded(items) ==
   /\ acc = <<"init">>
   /\ rt = <<>>
   /\ LET d == cno_hpack_decode(dec, BlockBytes(items), CNO_MAX_HEADERS)
      IN  /\ dec' = d.state
          /\ rt' = <<[items |-> items, rc |-> d.rc, got |-> d.headers]>>
   /\ UNCHANGED <<conn, mon, steps, twin, acc, rest, enc>>

UpdateNext ==
   \/ \E limit \in UpdateUppers : UpdateInit(limit)
   \/ \E items \in FillBlocks : UpdateFilled(items)
   \/ \E items \in UpdateBlocks : UpdateDecoded(items)

SpecUpdate == Init /\ [][UpdateNext]_vars

(* the decoder after the first k items of the block that it then decodes *)
Upto(state, items, k) ==
   cno_hpack_decode(state, BlockBytes(SubSeq(items, 1, k)), CNO_MAX_HEADERS)

(* C34: when the decoder meets a dynamic-table-size update whose value     *)
(* exceeds limit_upper, cno_hpack_decode fails with a TRANSPORT error and  *)
(* leaves limit and the dynamic table unchanged by that entry; when the    *)
(* value is <= limit_upper the decoder sets limit to it and evicts from    *)
(* the back until size <= limit, and the update produces no entry in the   *)
(* output header array.                                                    *)
C34_SizeUpdateDecoded ==
   [][(rt = <<>> /\ rt' # <<>>) =>
         \A k \in 1..Len(rt'[1].items) :
            (rt'[1].items[k].update /\ Upto(dec, rt'[1].items, k - 1).rc = CNO_OK) =>
               LET before == Upto(dec, rt'[1].items, k - 1)
                   after  == Upto(dec, rt'[1].items, k)
                   size   == rt'[1].items[k].size
               IN  IF size > dec.limit_upper
                   THEN /\ after.rc = "TRANSPORT"
                        /\ rt'[1].rc = "TRANSPORT"
                        /\ after.state = before.state
                        /\ dec'.limit = before.state.limit
                        /\ dec'.table = before.state.table
                   ELSE /\ after.rc = CNO_OK
                        /\ after.state.limit = size
                        /\ after.state.table = Fitting(before.state.table, size)
                        /\ after.state.size = TableSum(after.state.table)
                        /\ after.state.size <= size
                        /\ after.headers = before.headers
                        /\ (k = Len(rt'[1].items) =>
                              /\ dec' = after.state
                              /\ rt'[1].rc = CNO_OK
                              /\ rt'[1].got = before.headers)]_vars

(* a table of two entries was cut to one by an update *)
C34_Witness ==
   /\ rt # <<>>
   /\ Len(rt[1].items) = 1
   /\ rt[1].items[1].update
   /\ rt[1].items[1].size = EntrySize(Header(STR_a, STR_1))
   /\ rt[1].rc = CNO_OK
   /\ rt[1].got = <<>>
   /\ dec.limit_upper > dec.limit
   /\ Len(dec.table) = 1
   /\ steps = MaxFills

(* an update above limit_upper was refused after a literal was indexed *)
C34_WitnessRefused ==
   /\ rt # <<>>
   /\ Len(rt[1].items) = 2
   /\ rt[1].items[2].update
   /\ rt[1].items[2].size > dec.limit_upper
   /\ rt[1].rc = "TRANSPORT"
   /\ dec.table # <<>>

(***************************************************************************)
(* An HTTP/1.x message with a content-length: the head comes first, the    *)
(* body after it in pieces.  acc holds the digits of the length, rest the  *)
(* body bytes sent so far and twin the callbacks about the message that    *)
(* the body calls fired.                                                   *)
(***************************************************************************)
MaxBodySteps == 3

(* the heads of H1Heads with a content-length, by side *)
LengthHeads(c) ==
   {k \in 1..Len(H1Heads) :
      /\ H1Heads[k].kind = (IF c.client = 1 THEN "response" ELSE "request")
      /\ H1Heads[k].headers # <<>>
      /\ H1Heads[k].headers[1].name = STR_content_length}

BodyPieces == {<<97>>, STR_ab, <<98, 13, 10>>}

RECURSIVE DecValue(_, _)
DecValue(digits, n) ==
   IF digits = <<>> THEN n ELSE DecValue(Tail(digits), n * 10 + (Head(digits) - 48))

(* the length has more digits than the body of the model has bytes *)
Huge(digits) ==
   Len(digits) > 9

(* the first n bytes of the body, n the number the digits stand for *)
WithinLength(digits, body) ==
   IF Huge(digits) THEN body ELSE Take(body, DecValue(digits, 0))

(* the whole body is there *)
BodyComplete(digits, body) ==
   ~Huge(digits) /\ Len(body) >= DecValue(digits, 0)

LengthCalled(c, digits, body) ==
   /\ conn' = [c EXCEPT !.fail = {}, !.ub = "crash"]
   /\ mon' = ObserveAll(mon, c.cb, c.fail)
   /\ steps' = steps + 1
   /\ acc' = digits
   /\ rest' = body
   /\ twin' = twin \o SelectSeq(c.cb, LAMBDA e :
                         e.ev \in {"on_message_data", "on_message_end"})
   /\ UNCHANGED <<enc, dec, rt>>

LengthMade ==
   /\ conn.state = "UNDEFINED"
   /\ ~conn.on_upgrade
   /\ LengthCalled(Call("cno_connection_made", <<Fresh(conn), "HTTP1">>), <<>>, <<>>)

(* the request that the response will answer *)
LengthWriteMessage ==
   /\ conn.state = "HTTP1_READY"
   /\ conn.client = 1
   /\ ~cno_stream_find(conn, 1)
   /\ LengthCalled(Call("cno_write_message", <<Fresh(conn), 1, AppMessage(conn), TRUE>>), <<>>, <<>>)

(* the head of the message *)
LengthHead(k) ==
   /\ conn.state = "HTTP1_READY"
   /\ Ok(conn)
   /\ acc = <<>>
   /\ conn.client = 1 => cno_stream_find(conn, 1)
   /\ LengthCalled(Call("cno_connection_data_received", <<Fresh(conn), H1Head(k)>>),
                   H1Heads[k].headers[1].value, <<>>)

(* the next bytes of the body, never beyond the length *)
LengthBody(piece) ==
   /\ acc # <<>>
   /\ Ok(conn)
   /\ steps < MaxBodySteps + 3
   /\ IF Huge(acc) THEN TRUE ELSE Len(rest) + Len(piece) <= DecValue(acc, 0)
   /\ LengthCalled(Call("cno_connection_data_received", <<Fresh(conn), piece>>), acc, rest \o piece)

LengthNext ==
   \/ LengthMade
   \/ LengthWriteMessage
   \/ \E k \in LengthHeads(conn) : LengthHead(k)
   \/ \E piece \in BodyPieces : LengthBody(piece)

SpecLength == Init /\ [][LengthNext]_vars

(* the bytes of the on_message_data callbacks, in order *)
BodyDelivered(events) ==
   Flatten([i \in 1..Len(SelectSeq(events, LAMBDA e : e.ev = "on_message_data")) |->
               SelectSeq(events, LAMBDA e : e.ev = "on_message_data")[i].data])

BodyEnded(events) ==
   \E i \in 1..Len(events) : events[i].ev = "on_message_end"

(* C35: in HTTP/1.x mode, for a message with a Content-Length header of    *)
(* decimal value n and no transfer-encoding, http1_remaining is set to n   *)
(* and the engine delivers exactly n body bytes through on_message_data    *)
(* before on_message_end, for every n representable in the header          *)
(* including n = 4294967295 and n >= 2^32; a Content-Length value is never *)
(* treated as chunked framing and never wraps modulo 2^32.                 *)
C35_ContentLengthBody ==
   acc # <<>> =>
      /\ Ok(conn)
      /\ BodyDelivered(twin) = WithinLength(acc, rest)
      /\ (BodyEnded(twin) <=> BodyComplete(acc, rest))
      /\ (BodyEnded(twin) => twin[Len(twin)].ev = "on_message_end")
      /\ (~Huge(acc) => conn.http1_remaining = DecValue(acc, 0) - Len(rest))
      /\ (Huge(acc) =>
            /\ conn.state = "HTTP1_READING"
            /\ conn.http1_remaining # UINT32_MAX
            /\ (rest = <<>> => conn.http1_remaining = ContentLength(acc, 0).value))

(***************************************************************************)
(* A server that shuts the connection down with cno_write_reset(0, code)   *)
(* while the client goes on sending.  rest holds the value of              *)
(* last_stream[CNO_REMOTE] at the time of each GOAWAY.                     *)
(***************************************************************************)
MaxGoawaySteps == 6

(* frames on the connection, on a stream that may exist, on a new stream *)
GoawayFrames ==
   {[data |-> WireFrame(CNO_FRAME_PING, 0, 0, Pack(0, 8)), id |-> 0],
    [data |-> WireFrame(CNO_FRAME_WINDOW_UPDATE, 0, 0, Pack(1, 4)), id |-> 0]}
   \cup {[data |-> WireFrame(CNO_FRAME_DATA, 0, id, STR_ab), id |-> id] : id \in {1, 3}}
   \cup {[data |-> WireFrame(CNO_FRAME_HEADERS, CNO_FLAG_END_HEADERS, id, RequestBlock),
          id |-> id] : id \in {1, 3, 5}}
   \cup {[data |-> WireFrame(CNO_FRAME_RST_STREAM, 0, id, Pack(CNO_RST_NO_ERROR, 4)),
          id |-> id] : id \in {1, 3}}

GoawayRunning ==
   /\ steps < MaxGoawaySteps
   /\ conn.rc \notin Fatal
   /\ conn.client = 0
   /\ ~conn.on_upgrade

GoawayCalled(c, call, markers) ==
   /\ conn' = [c EXCEPT !.fail = {}, !.ub = "crash"]
   /\ mon' = ObserveAll(mon, c.cb, c.fail)
   /\ steps' = steps + 1
   /\ acc' = call
   /\ rest' = markers
   /\ UNCHANGED <<twin, enc, dec, rt>>

GoawayMade ==
   /\ GoawayRunning
   /\ conn.state = "UNDEFINED"
   /\ GoawayCalled(Call("cno_connection_made", <<Fresh(conn), "HTTP2">>), <<"made">>, rest)

GoawayPreface ==
   /\ GoawayRunning
   /\ conn.state = "PREFACE"
   /\ GoawayCalled(Call("cno_connection_data_received", <<Fresh(conn),
                                                CNO_PREFACE \o SettingsFrame(<<>>)>>),
                   <<"preface">>, rest)

(* the client sends a frame *)
GoawayReceived(in) ==
   /\ GoawayRunning
   /\ conn.state = "READY"
   /\ conn.window_send = CNO_SETTINGS_STANDARD[initial_window_size]
   /\ GoawayCalled(Call("cno_connection_data_received", <<Fresh(conn), in.data>>),
                   <<"frame", in.id>>, rest)

(* cno_write_reset(conn, 0, code) *)
GoawayWriteReset(code) ==
   /\ GoawayRunning
   /\ conn.state = "READY"
   /\ Len(rest) < 2
   /\ GoawayCalled(Call("cno_write_reset", <<Fresh(conn), 0, code>>), <<"goaway", code>>,
                   Append(rest, conn.last_stream[CNO_REMOTE]))

GoawayNext ==
   \/ GoawayMade
   \/ GoawayPreface
   \/ \E in \in GoawayFrames : GoawayReceived(in)
   \/ \E code \in {CNO_RST_NO_ERROR, CNO_RST_PROTOCOL_ERROR} : GoawayWriteReset(code)

SpecGoaway == Init /\ [][GoawayNext]_vars

(* C36: write_reset(0, code) on an HTTP/2 connection writes a GOAWAY whose *)
(* last-stream-id field equals last_stream[REMOTE] at that moment and      *)
(* records that value in goaway_sent; afterwards every inbound frame whose *)
(* stream id is greater than goaway_sent is consumed from the buffer       *)
(* without firing on_frame and without running its handler, while frames   *)
(* on stream ids <= goaway_sent are still processed.                       *)
C36_GoawayLastStream ==
   [][/\ \A code \in {CNO_RST_NO_ERROR, CNO_RST_PROTOCOL_ERROR} :
            acc' = <<"goaway", code>> =>
               /\ WroteFrame(conn', CNO_FRAME_GOAWAY, 0,
                             Pack(conn.last_stream[CNO_REMOTE], 4) \o Pack(code, 4))
               /\ conn'.goaway_sent = conn.last_stream[CNO_REMOTE]
      /\ (acc'[1] = "frame" /\ rest # <<>>) =>
            IF acc'[2] > conn.goaway_sent
            THEN /\ conn'.cb = <<>>
                 /\ conn' = [conn EXCEPT !.cb = <<>>]
                 /\ conn'.buffer = <<>>
            ELSE /\ conn'.cb # <<>>
                 /\ conn'.cb[1].ev = "on_frame"
                 /\ conn'.cb[1].frame.stream = acc'[2]]_vars

(* C37: encoder and decoder dynamic tables stay identical: for any         *)
(* interleaving of cno_hpack_setlimit calls (including shrinking the limit *)
(* and growing it again before the next encode) and cno_hpack_encode calls *)
(* on an encoder, with every produced block decoded in order by a decoder  *)
(* that started with the same limit, after each block the decoder's        *)
(* dynamic table holds the same entries in the same order as the           *)
(* encoder's, so every index the encoder emits refers to the same header   *)
(* in both tables.  The limits asked for are within the limit that both    *)
(* started with.                                                           *)
C37_TablesIdentical ==
   [][(/\ rt # <<>>
       /\ rt'[1].sent # <<>>
       /\ steps' = steps + 1
       /\ enc.table = dec.table
       /\ \A i \in 1..Len(acc) : acc[i] <= dec.limit_upper) =>
         /\ dec'.table = enc'.table
         /\ rt'[1].rc = CNO_OK
         /\ rt'[1].got = rt'[1].sent]_vars

(***************************************************************************)
(* Header blocks around the capacity of the array that                     *)
(* cno_frame_handle_end_headers decodes into: a message of n headers, the  *)
(* last of which may be a literal that the decoder has to index.           *)
(***************************************************************************)
MaxLongBlocks == 2

(* the number of headers of the block, from well below CNO_MAX_HEADERS to  *)
(* above it                                                                *)
BlockLengths ==
   {CNO_MAX_HEADERS \div 16, CNO_MAX_HEADERS - 1, CNO_MAX_HEADERS,
    CNO_MAX_HEADERS + 1, CNO_MAX_HEADERS + 2}

(* the last header of the block: a reference to the static table, or a     *)
(* literal with incremental indexing                                       *)
BlockTails ==
   {[bytes |-> <<144>>, indexed |-> <<>>],
    [bytes |-> <<64, 1, 97, 1, 49>>, indexed |-> <<Header(STR_a, STR_1)>>],
    [bytes |-> <<64, 1, 98, 1, 49>>, indexed |-> <<Header(STR_b, STR_1)>>]}

(* n headers: the pseudo-headers of the side, `accept-encoding` from the   *)
(* static table as often as it takes, and the tail                         *)
LongBlock(c, n, tail) ==
   LET head == IF c.client = 1 THEN ResponseBlock ELSE RequestBlock
   IN  head \o [i \in 1..(n - Len(head) - 1) |-> 144] \o tail.bytes

LongRunning ==
   /\ conn.rc \notin Fatal
   /\ ~conn.on_upgrade

LongCalled(c, call) ==
   /\ conn' = [c EXCEPT !.fail = {}, !.ub = "crash"]
   /\ mon' = ObserveAll(mon, c.cb, c.fail)
   /\ acc' = call
   /\ UNCHANGED <<twin, rest, enc, dec, rt>>

LongMade ==
   /\ LongRunning
   /\ conn.state = "UNDEFINED"
   /\ LongCalled(Call("cno_connection_made", <<Fresh(conn), "HTTP2">>), <<"made">>)
   /\ UNCHANGED steps

LongSettings ==
   /\ LongRunning
   /\ conn.state \in {"PREFACE", "READY_NO_SETTINGS"}
   /\ LongCalled(Call("cno_connection_data_received", <<
                    Fresh(conn),
                    (IF conn.state = "PREFACE" THEN CNO_PREFACE ELSE <<>>)
                    \o SettingsFrame(<<>>)>>),
                 <<"settings">>)
   /\ UNCHANGED steps

(* the client asks, so that a response can come *)
LongWriteMessage ==
   /\ LongRunning
   /\ conn.state = "READY"
   /\ conn.client = 1
   /\ conn.last_stream[CNO_LOCAL] < 2 * steps + 1
   /\ LongCalled(Call("cno_write_message", <<Fresh(conn), 2 * steps + 1, AppMessage(conn), TRUE>>),
                 <<"write_message">>)
   /\ UNCHANGED steps

(* HEADERS with the block of n headers on the next stream *)
LongReceived(n, tail, final) ==
   /\ LongRunning
   /\ conn.state = "READY"
   /\ steps < MaxLongBlocks
   /\ conn.client = 1 => cno_stream_find(conn, 2 * steps + 1)
   /\ LongCalled(Call("cno_connection_data_received", <<
                    Fresh(conn),
                    WireFrame(CNO_FRAME_HEADERS,
                              CNO_FLAG_END_HEADERS + (IF final THEN CNO_FLAG_END_STREAM ELSE 0),
                              2 * steps + 1, LongBlock(conn, n, tail))>>),
                 <<"block", n, tail.indexed>>)
   /\ steps' = steps + 1

LongNext ==
   \/ LongMade
   \/ LongSettings
   \/ LongWriteMessage
   \/ \E n \in BlockLengths, tail \in BlockTails, final \in BOOLEAN :
         LongReceived(n, tail, final)

SpecBlock == Init /\ [][LongNext]_vars

(* the number of headers of the message that the call announced: those    *)
(* of the list and those that became the method, the path and the code     *)
Announced(c) ==
   LET starts == FiredOf(c, "on_message_start")
       msg == starts[1].msg
   IN  IF starts = <<>> THEN 0
       ELSE Len(msg.headers) + (IF msg.method # <<>> THEN 1 ELSE 0)
            + (IF msg.path # <<>> THEN 1 ELSE 0) + (IF msg.code # 0 THEN 1 ELSE 0)

(* C38: a cno_hpack_decode call that returns OK has processed every byte   *)
(* of the header block, so every incremental-indexing and size-update      *)
(* representation in the block has been applied to the decoder's dynamic   *)
(* table; a block that holds more headers than the output capacity         *)
(* (CNO_MAX_HEADERS = 64 in cno_frame_handle_end_headers) is reported as   *)
(* an error, never silently truncated with the rest of the block skipped.  *)
C38_WholeBlockDecoded ==
   [][acc'[1] = "block" =>
         /\ (Ok(conn') =>
               /\ conn'.decoder.table = acc'[3] \o conn.decoder.table
               /\ Announced(conn') = acc'[2])
         /\ (acc'[2] > CNO_MAX_HEADERS => ~Ok(conn'))
         /\ (acc'[2] <= CNO_MAX_HEADERS => Ok(conn'))]_vars

(* the stream exists and has given up WRITE_HEADERS *)
HeadWritten(c, stream) ==
   /\ c.state # "UNDEFINED"
   /\ cno_connection_is_http2(c)
   /\ cno_stream_find(c, stream)
   /\ "WRITE_HEADERS" \notin Stream(c, stream).accept

(* C39: in HTTP/2 mode write_message emits a HEADERS frame on a stream     *)
(* only while that stream has WRITE_HEADERS: after a successful            *)
(* non-informational write_message has cleared WRITE_HEADERS, any further  *)
(* write_message on the same stream, from a client as well as from a       *)
(* server, is rejected and writes nothing, so each stream carries at most  *)
(* one non-informational outbound HEADERS block.                           *)
C39_OneHeadPerStream ==
   [][\A stream \in 1..2, code \in ApiCodes, final \in BOOLEAN :
         (acc' = <<"write_message", stream, code, final>> /\ HeadWritten(conn, stream)) =>
            /\ ~Ok(conn')
            /\ conn'.cb = <<>>]_vars

(***************************************************************************)
(* The loop of cno_connection_proceed, one iteration at a time.  A call of *)
(* cno_connection_made or cno_connection_data_received enters the loop,    *)
(* each step runs the case of the current state, and the call returns when *)
(* a case returns.  acc is <<"running", n>> after n iterations of a call   *)
(* that is still in the loop and <<"returned", n>> once it is out.         *)
(***************************************************************************)
MaxLoopCalls == 3

(* what arrives in one call: the inputs of each state, and several of them *)
(* at once                                                                 *)
LoopInputs(c) ==
   Inputs(c)
   \cup (IF c.state \in {"READY", "READY_NO_SETTINGS"}
         THEN {SettingsFrame(<<>>) \o SettingsFrame(<<>>) \o TwoStreams(c),
               SettingsFrame(<<>>) \o WireFrame(CNO_FRAME_PING, 0, 0, Pack(0, 8))
               \o WireFrame(CNO_FRAME_UNKNOWN, 0, 0, <<>>)}
         ELSE IF c.state = "PREFACE"
         THEN {CNO_PREFACE, STR_ab}
         ELSE {<<13, 10>> \o H1Head(1) \o H1Head(2) \o STR_ab \o H1Head(1),
               H1Head(3) \o ChunkedBody \o H1Head(1),
               H1Head(6) \o STR_ab \o H1Head(7),
               H1Head(4) \o CNO_PREFACE \o SettingsFrame(<<>>),
               H1Head(5) \o STR_ab,
               CNO_PREFACE \o SettingsFrame(<<>>) \o TwoStreams(c)})

LoopIdle ==
   /\ steps < MaxLoopCalls
   /\ IF acc = <<>> THEN TRUE ELSE acc[1] = "returned"
   /\ conn.rc \notin Fatal

(* cno_connection_made up to the loop *)
LoopMade(version) ==
   /\ LoopIdle
   /\ conn.state = "UNDEFINED"
   /\ version = "HTTP2" => ~conn.on_upgrade
   /\ conn' = [Fresh(conn) EXCEPT
                 !.state = IF version = "HTTP2" THEN "INIT" ELSE "HTTP1_READY"]
   /\ acc' = <<"running", 0>>
   /\ steps' = steps + 1
   /\ UNCHANGED <<mon, twin, rest, enc, dec, rt>>

(* cno_connection_data_received up to the loop *)
LoopReceived(data) ==
   /\ LoopIdle
   /\ conn.state # "UNDEFINED"
   /\ conn' = [Fresh(conn) EXCEPT !.buffer = @ \o data]
   /\ acc' = <<"running", 0>>
   /\ steps' = steps + 1
   /\ UNCHANGED <<mon, twin, rest, enc, dec, rt>>

(* the request of a client, without which no response can come *)
LoopWriteMessage ==
   /\ LoopIdle
   /\ conn.state \in {"HTTP1_READY", "READY"}
   /\ conn.client = 1
   /\ ~cno_stream_find(conn, 1)
   /\ conn' = Call("cno_write_message", <<Fresh(conn), 1, AppMessage(conn), TRUE>>)
   /\ acc' = <<"returned", 0>>
   /\ UNCHANGED <<mon, steps, twin, rest, enc, dec, rt>>

(* one iteration of `while (1) switch (conn->state)` *)
LoopIterated(s) ==
   /\ conn' = s.c
   /\ acc' = <<IF s.again THEN "running" ELSE "returned", acc[2] + 1>>
   /\ UNCHANGED <<mon, steps, twin, rest, enc, dec, rt>>

LoopIterate ==
   /\ IF acc = <<>> THEN FALSE ELSE acc[1] = "running"
   /\ LoopIterated(Call("ProceedStep", <<conn>>))

LoopNext ==
   \/ \E version \in {"HTTP1", "HTTP2"} : LoopMade(version)
   \/ \E data \in LoopInputs(conn) : LoopReceived(data)
   \/ LoopWriteMessage
   \/ LoopIterate

SpecLoop == Init /\ [][LoopNext]_vars

InLoop ==
   IF acc = <<>> THEN FALSE ELSE acc[1] = "running"

(* the loop is straight-line code: once entered, the next iteration runs.  *)
(* This is weak fairness of LoopIterate, with ENABLED <<LoopIterate>>_vars *)
(* written out as InLoop.                                                  *)
LoopFair ==
   []<>(~InLoop) \/ []<><<LoopIterate>>_vars

SpecLoopLive == SpecLoop /\ LoopFair

(* the order in which states follow one another between two bytes taken    *)
(* from the buffer                                                         *)
Rank(state) ==
   CASE state = "UNKNOWN_PROTOCOL_UPGRADE" -> 0
     [] state = "UNKNOWN_PROTOCOL" -> 1
     [] state = "HTTP1_READING" -> 1
     [] state = "HTTP1_READING_UPGRADE" -> 1
     [] state = "HTTP1_READY" -> 2
     [] state = "INIT" -> 3
     [] state = "PREFACE" -> 4
     [] state = "READY_NO_SETTINGS" -> 5
     [] OTHER -> 6

(* C40: the drive loop terminates: for every connection state and every    *)
(* finite buffered input, cno_connection_proceed returns after finitely    *)
(* many iterations, because each iteration either consumes at least one    *)
(* buffered byte, moves the connection state forward (INIT to PREFACE to   *)
(* READY_NO_SETTINGS to READY, H1_READY to H1_READING and back, upgrade    *)
(* states), or returns OK or an error; no cycle of states repeats without  *)
(* consuming input.                                                        *)
C40_LoopTerminates ==
   /\ [][InLoop =>
            \/ acc'[1] = "returned"
            \/ Len(conn'.buffer) < Len(conn.buffer)
            \/ /\ conn'.buffer = conn.buffer
               /\ Rank(conn'.state) > Rank(conn.state)]_vars
   /\ (InLoop ~> ~InLoop)

(* a call went through the loop six times and returned *)
C40_Witness ==
   /\ acc # <<>>
   /\ acc[1] = "returned"
   /\ acc[2] >= 6
   /\ Ok(conn)
====
